---- MODULE Spec2Model ----
(***************************************************************************)
(* Model of the AG-UI message registry (AguiMessageRegistry.tsx): the      *)
(* chunk payload extractor, the payload interpreter with its per-stream    *)
(* index tracker, the message store with its secondary indexes and         *)
(* subscribers, and the action recency policy; of the raw response logger  *)
(* (RawResponseLogger.tsx) that feeds it: records, chunks, completion and  *)
(* errors, the wrappers it installs on window.fetch and its local cache;   *)
(* of the action detail context (ActionDetailContext.tsx); and of the      *)
(* ask_user_question renderer with the form shown in the detail panel.     *)
(*                                                                         *)
(* Specifications.  Spec: payloads applied to the store.  SpecExtract: the *)
(* extractor fed with a text cut into chunks.  SpecRecency: same-name      *)
(* actions with equal and unequal instants.  SpecOrder: payloads that      *)
(* carry a snapshot and an incremental list.  SpecStream: two responses    *)
(* read chunk by chunk through the logger into the registry.  SpecSession: *)
(* the same with resets of the registry.  SpecDetail: selectAction and     *)
(* clearAction.  SpecPersist: the local cache.  SpecFetch: loggers mounted *)
(* and unmounted.  SpecAsk: one ask_user_question execution.               *)
(*                                                                         *)
(* Representation.  A JS Map or Set is a sequence in insertion order (the  *)
(* message table, the subscribers) or a function on the set of keys that   *)
(* are present (the indexes, the trackers).  A message is a function from  *)
(* field names to values; a field that is undefined is not in its DOMAIN.  *)
(* A value that may be null is a set with at most one element.  A JS array *)
(* of strings is a sequence; JS index j is position j + 1, and an empty    *)
(* slot of a sparse array is Hole.  Path segments and items are JSON       *)
(* values of mixed type and carry a type tag.                              *)
(***************************************************************************)
EXTENDS Integers, Sequences, FiniteSets, TLC

VARIABLES
    messageStore,             \* Map<id, AGUIMessage>, in insertion order
    messagesByType,           \* Map<typename, Set<id>>
    actionExecutionMessages,  \* Map<action name, AGUIMessage>
    subscribers,              \* Set<MessageSubscriber>, in insertion order
    messageTrackers,          \* Map<recordId, Map<index, id>>
    parserStates,             \* Map<recordId, ChunkParserState>
    wire,                     \* the text the stream source will deliver
    sent,                     \* number of characters of wire delivered so far
    emitted,                  \* payloads returned by the extractor so far
    calls,                    \* subscriber invocations made by the last step
    puts,                     \* messages put into the store by the last step
    dropped,                  \* patches delivered while their index was unresolved
    lastOp,                   \* the operation performed by the last step
    steps,                    \* number of steps taken
    rawResponseStore,         \* Map<recordId, RawResponseRecord>
    processedChunkCounts,     \* Map<recordId, number>
    source,                   \* per record: the fetch and the body still to come
    extracted,                \* per record: payload texts the registry extracted
    selectedAction,           \* ActionDetail | null
    actionHistory,            \* ActionDetail[]
    persisted,                \* the local cache: maxEntries and the stored entries
    windowFetch,              \* window.fetch
    loggers,                  \* per useRawResponseLogger effect: originalFetch, mounted
    renderer                  \* AskUserQuestionRenderer: props, state, calls of respond

vars == <<messageStore, messagesByType, actionExecutionMessages, subscribers,
          messageTrackers, parserStates, wire, sent, emitted, calls, puts,
          dropped, lastOp, steps, rawResponseStore, processedChunkCounts, source,
          extracted, selectedAction, actionHistory, persisted, windowFetch,
          loggers, renderer>>

storeVars == <<messageStore, messagesByType, actionExecutionMessages>>
extractVars == <<parserStates, wire, sent, emitted>>
fetchVars == <<windowFetch, loggers>>
streamVars == <<rawResponseStore, processedChunkCounts, source, extracted, persisted,
                fetchVars, renderer>>
detailVars == <<selectedAction, actionHistory>>

(***************************************************************************)
(* Bounds                                                                  *)
(***************************************************************************)
MaxSteps == 3

(***************************************************************************)
(* Values                                                                  *)
(***************************************************************************)
ActionType == "ActionExecutionMessageOutput"
TextType == "TextMessageOutput"
Wrapper == "generateCopilotResponse"
Hole == "<empty>"
Records == {"r1", "r2"}

\* Subscriber callbacks; cbThrow raises an exception when it is invoked.
Callbacks == {"cbA", "cbThrow"}
Throwing == {"cbThrow"}

\* createdAt strings as they appear on the wire.
At1 == "2024-01-01T00:00:01Z"
At2 == "2024-01-01T00:00:02Z"
At2b == "2024-01-01T01:00:02+01:00"
At3 == "2024-01-01T00:00:03Z"

\* new Date(createdAt).getTime(), in seconds after 2024-01-01T00:00:00Z.
DateGetTime(createdAt) ==
    CASE createdAt = At1 -> 1
      [] createdAt = At2 -> 2
      [] createdAt = At2b -> 2
      [] createdAt = At3 -> 3

\* Tagged JSON values for positions that hold values of mixed type.
Str(s) == [t |-> "string", v |-> s]
Num(n) == [t |-> "number", v |-> n]
Obj(o) == [t |-> "object", v |-> o]

Max(a, b) == IF a > b THEN a ELSE b

(***************************************************************************)
(* Map helpers for the message table                                       *)
(***************************************************************************)
MapHas(ms, id) == \E i \in 1..Len(ms) : ms[i].id = id

MapPos(ms, id) == CHOOSE i \in 1..Len(ms) : ms[i].id = id

\* Map.get(id) || null
MapGet(ms, id) == IF MapHas(ms, id) THEN {ms[MapPos(ms, id)]} ELSE {}

\* Variant: every set adds a new entry.
MapSet_Append(ms, m) == Append(ms, m)

\* Map.set: an existing key keeps its place in the insertion order.
MapSet(ms, m) ==
    IF MapHas(ms, m.id) THEN [ms EXCEPT ![MapPos(ms, m.id)] = m]
    ELSE Append(ms, m)

\* Object spread {...a, ...b}
Spread(a, b) ==
    [f \in (DOMAIN a) \cup (DOMAIN b) |-> IF f \in DOMAIN b THEN b[f] ELSE a[f]]

(***************************************************************************)
(* Message Store                                                           *)
(***************************************************************************)
\* The registry as one value: the three maps, the subscriber invocations
\* made so far in this step and whether an exception is propagating.
Registry ==
    [messageStore |-> messageStore,
     messagesByType |-> messagesByType,
     actionExecutionMessages |-> actionExecutionMessages,
     calls |-> <<>>,
     puts |-> <<>>,
     thrown |-> FALSE,
     failed |-> FALSE]

getAguiMessage(id) == MapGet(messageStore, id)

getAguiMessagesByType(typename) ==
    IF typename \notin DOMAIN messagesByType THEN {}
    ELSE UNION {MapGet(messageStore, id) : id \in messagesByType[typename]}

getLatestActionExecution(actionName) ==
    IF actionName \in DOMAIN actionExecutionMessages
    THEN {actionExecutionMessages[actionName]}
    ELSE {}

\* m.name, with undefined represented by the empty set
NameOf(m) == IF "name" \in DOMAIN m THEN {m.name} ELSE {}

\* Array.prototype.sort with the comparator of shouldRenderAction: a stable
\* sort, ascending in new Date(createdAt).getTime().
RECURSIVE InsertByTime(_, _)
InsertByTime(sorted, m) ==
    IF sorted = <<>> THEN <<m>>
    ELSE IF DateGetTime(sorted[Len(sorted)].createdAt) - DateGetTime(m.createdAt) > 0
         THEN Append(InsertByTime(SubSeq(sorted, 1, Len(sorted) - 1), m),
                     sorted[Len(sorted)])
         ELSE Append(sorted, m)

RECURSIVE SortByCreatedAt(_)
SortByCreatedAt(ms) ==
    IF ms = <<>> THEN <<>>
    ELSE InsertByTime(SortByCreatedAt(SubSeq(ms, 1, Len(ms) - 1)), ms[Len(ms)])

sameNameActions(ms, actionMessage) ==
    SortByCreatedAt(SelectSeq(ms,
        LAMBDA m : m.__typename = ActionType /\ NameOf(m) = NameOf(actionMessage)))

\* Variant: the same-name actions are not sorted, the last inserted wins.
shouldRenderActionIn_LastInserted(ms, actionMessage) ==
    IF actionMessage.__typename # ActionType THEN TRUE
    ELSE LET same == SelectSeq(ms,
                LAMBDA m : m.__typename = ActionType /\ NameOf(m) = NameOf(actionMessage))
         IN  same # <<>> /\ actionMessage.id = same[Len(same)].id

\* Variant: among the same-name actions with the greatest instant, the one
\* that comes first in the store wins.
shouldRenderActionIn_FirstOfTies(ms, actionMessage) ==
    IF actionMessage.__typename # ActionType THEN TRUE
    ELSE LET same == sameNameActions(ms, actionMessage)
             top == {i \in 1..Len(same) :
                        DateGetTime(same[i].createdAt) =
                            DateGetTime(same[Len(same)].createdAt)}
         IN  /\ same # <<>>
             /\ actionMessage.id = same[CHOOSE i \in top : \A j \in top : i <= j].id

shouldRenderActionIn(ms, actionMessage) ==
    IF actionMessage.__typename # ActionType THEN TRUE
    ELSE LET same == sameNameActions(ms, actionMessage)
         IN  same # <<>> /\ actionMessage.id = same[Len(same)].id

shouldRenderAction(actionMessage) == shouldRenderActionIn(messageStore, actionMessage)

\* What a subscriber that reads the store during its invocation finds.
Reflects(R, message) ==
    /\ MapGet(R.messageStore, message.id) = {message}
    /\ message.__typename \in DOMAIN R.messagesByType
    /\ message.id \in R.messagesByType[message.__typename]
    /\ (message.__typename = ActionType /\ "name" \in DOMAIN message)
          => /\ message.name \in DOMAIN R.actionExecutionMessages
             /\ R.actionExecutionMessages[message.name] = message

\* subscribers.forEach(callback => callback(message)): in insertion order,
\* ended by the first callback that throws.
notifySubscribers(R, message, subs) ==
    LET throwers == {i \in 1..Len(subs) : subs[i] \in Throwing}
        last == IF throwers = {} THEN Len(subs)
                ELSE CHOOSE i \in throwers : \A j \in throwers : i <= j
    IN  [R EXCEPT
            !.calls = R.calls \o
                [i \in 1..last |-> [callback |-> subs[i],
                                    message |-> message,
                                    put |-> Len(R.puts),
                                    reflected |-> Reflects(R, message)]],
            !.thrown = throwers # {}]

storeMessage(R, message, subs) ==
    LET ty == message.__typename
        ids == IF ty \in DOMAIN R.messagesByType THEN R.messagesByType[ty] ELSE {}
        stored ==
            [R EXCEPT
                !.puts = Append(R.puts, message),
                !.messageStore = MapSet(R.messageStore, message),
                !.messagesByType =
                    [t \in (DOMAIN R.messagesByType) \cup {ty} |->
                        IF t = ty THEN ids \cup {message.id}
                        ELSE R.messagesByType[t]],
                !.actionExecutionMessages =
                    IF ty = ActionType /\ "name" \in DOMAIN message
                    THEN [n \in (DOMAIN R.actionExecutionMessages) \cup {message.name} |->
                            IF n = message.name THEN message
                            ELSE R.actionExecutionMessages[n]]
                    ELSE R.actionExecutionMessages]
    IN  notifySubscribers(stored, message, subs)

(***************************************************************************)
(* Chunk Payload Extractor                                                 *)
(***************************************************************************)
\* A text is the sequence of its characters.
\* {}
EmptyObject ==
    <<"{", "}">>

\* {"a":{"b":1}}
NestedObject ==
    <<"{", "\"", "a", "\"", ":", "{", "\"", "b", "\"", ":", "1", "}", "}">>

\* {"s":"{"}
OpenBraceInString ==
    <<"{", "\"", "s", "\"", ":", "\"", "{", "\"", "}">>

\* {"s":"}"}
CloseBraceInString ==
    <<"{", "\"", "s", "\"", ":", "\"", "}", "\"", "}">>

\* {"s":"\"}"}
EscapedQuoteInString ==
    <<"{", "\"", "s", "\"", ":", "\"", "\\", "\"", "}", "\"", "}">>

\* {"s":"{\\"}
EscapedBackslashInString ==
    <<"{", "\"", "s", "\"", ":", "\"", "{", "\\", "\\", "\"", "}">>

\* x{}\n{"a":1}
FramedObjects ==
    <<"x", "{", "}", "\n", "{", "\"", "a", "\"", ":", "1", "}">>

\* {}{"a":
TruncatedObject ==
    <<"{", "}", "{", "\"", "a", "\"", ":">>


\* Texts that are one complete JSON object.
CompleteObjects ==
    {EmptyObject, NestedObject, OpenBraceInString, CloseBraceInString,
     EscapedQuoteInString, EscapedBackslashInString}

\* Complete objects of nesting depth 1 whose string value holds braces or
\* an escaped quote.
StringObjects ==
    {OpenBraceInString, CloseBraceInString, EscapedQuoteInString,
     EscapedBackslashInString}

\* {\}{} : a backslash inside an object and outside any string literal
BackslashOutsideString ==
    <<"{", "\\", "}", "{", "}">>

Texts == CompleteObjects \cup {FramedObjects, TruncatedObject, BackslashOutsideString}

InitialParserState == [buffer |-> <<>>, depth |-> 0, inString |-> FALSE, escaping |-> FALSE]

\* Variant: every call starts from a fresh parser state.
getParserState_Fresh(recordId, states) == InitialParserState

\* getParserState(recordId, parserStates)
getParserState(recordId, states) ==
    IF recordId \in DOMAIN states THEN states[recordId] ELSE InitialParserState

\* Variant: braces are counted without regard to string literals.
extractChar_NoString(X, char) ==
    LET state == X.state
        appended == [state EXCEPT !.buffer = Append(state.buffer, char)]
    IN  IF state.depth = 0
        THEN IF char = "{"
             THEN [X EXCEPT !.state = [state EXCEPT !.buffer = <<"{">>, !.depth = 1]]
             ELSE X
        ELSE IF char = "{"
        THEN [X EXCEPT !.state = [appended EXCEPT !.depth = state.depth + 1]]
        ELSE IF char = "}"
        THEN IF state.depth - 1 = 0
             THEN [state |-> [appended EXCEPT !.depth = 0, !.buffer = <<>>],
                   payloads |-> Append(X.payloads, appended.buffer)]
             ELSE [X EXCEPT !.state = [appended EXCEPT !.depth = state.depth - 1]]
        ELSE [X EXCEPT !.state = appended]

\* Variant: characters between objects are kept in the buffer.
extractChar_KeepsFraming(X, char) ==
    LET state == X.state
        appended == [state EXCEPT !.buffer = Append(state.buffer, char)]
    IN  IF state.depth = 0
        THEN IF char = "{"
             THEN [X EXCEPT !.state = [appended EXCEPT !.depth = 1]]
             ELSE [X EXCEPT !.state = appended]
        ELSE IF state.escaping
        THEN [X EXCEPT !.state = [appended EXCEPT !.escaping = FALSE]]
        ELSE IF char = "\\"
        THEN [X EXCEPT !.state = [appended EXCEPT !.escaping = TRUE]]
        ELSE IF char = "\""
        THEN [X EXCEPT !.state = [appended EXCEPT !.inString = ~state.inString]]
        ELSE IF state.inString
        THEN [X EXCEPT !.state = appended]
        ELSE IF char = "{"
        THEN [X EXCEPT !.state = [appended EXCEPT !.depth = state.depth + 1]]
        ELSE IF char = "}"
        THEN IF state.depth - 1 = 0
             THEN [state |-> [appended EXCEPT !.depth = 0, !.buffer = <<>>],
                   payloads |-> Append(X.payloads, appended.buffer)]
             ELSE [X EXCEPT !.state = [appended EXCEPT !.depth = state.depth - 1]]
        ELSE [X EXCEPT !.state = appended]

\* One iteration of the loop of extractJsonPayloads; X is the parser state
\* together with the payloads pushed so far.
extractChar(X, char) ==
    LET state == X.state
        appended == [state EXCEPT !.buffer = Append(state.buffer, char)]
    IN  IF state.depth = 0
        THEN IF char = "{"
             THEN [X EXCEPT !.state = [state EXCEPT !.buffer = <<"{">>, !.depth = 1]]
             ELSE X
        ELSE IF state.escaping
        THEN [X EXCEPT !.state = [appended EXCEPT !.escaping = FALSE]]
        ELSE IF char = "\\"
        THEN [X EXCEPT !.state = [appended EXCEPT !.escaping = TRUE]]
        ELSE IF char = "\""
        THEN [X EXCEPT !.state = [appended EXCEPT !.inString = ~state.inString]]
        ELSE IF state.inString
        THEN [X EXCEPT !.state = appended]
        ELSE IF char = "{"
        THEN [X EXCEPT !.state = [appended EXCEPT !.depth = state.depth + 1]]
        ELSE IF char = "}"
        THEN IF state.depth - 1 = 0
             THEN [state |-> [appended EXCEPT !.depth = 0, !.buffer = <<>>],
                   payloads |-> Append(X.payloads, appended.buffer)]
             ELSE [X EXCEPT !.state = [appended EXCEPT !.depth = state.depth - 1]]
        ELSE [X EXCEPT !.state = appended]

\* for (const char of chunk), over the characters lo..hi of the chunk. The
\* range is halved so that the evaluation nests to a depth logarithmic in
\* the length; the characters are consumed from left to right.
RECURSIVE extractRange(_, _, _, _)
extractRange(X, chunk, lo, hi) ==
    IF lo > hi THEN X
    ELSE IF lo = hi THEN extractChar(X, chunk[lo])
    ELSE LET mid == (lo + hi) \div 2
             Y == extractRange(X, chunk, lo, mid)
         IN  IF Y.state.depth >= 0 THEN extractRange(Y, chunk, mid + 1, hi) ELSE Y

extractFrom(X, chunk, i) == extractRange(X, chunk, i, Len(chunk))

\* Returns the payloads and the parser state as the call leaves it.
extractJsonPayloads(chunk, state) ==
    extractFrom([state |-> state, payloads |-> <<>>], chunk, 1)

(***************************************************************************)
(* Payload Interpreter                                                     *)
(***************************************************************************)
\* path.findIndex(segment => segment === 'messages'), as a position of the
\* sequence; 0 when there is none (JS -1).
messagePathIdx(path) ==
    LET hits == {i \in 1..Len(path) : path[i].t = "string" /\ path[i].v = "messages"}
    IN  IF hits = {} THEN 0 ELSE CHOOSE i \in hits : \A j \in hits : i <= j

\* The segment offset places after 'messages', if it has the given type.
SegmentAfter(inc, offset, type) ==
    IF "path" \notin DOMAIN inc THEN {}
    ELSE LET path == inc.path
             p == messagePathIdx(path)
         IN  IF p = 0 THEN {}
             ELSE IF p + offset <= Len(path) /\ path[p + offset].t = type
                  THEN {path[p + offset].v}
                  ELSE {}

getMessageIndexFromPath(inc) == SegmentAfter(inc, 1, "number")

getFieldFromPath(inc) == SegmentAfter(inc, 2, "string")

getArrayIndexFromPath(inc) == SegmentAfter(inc, 3, "number")

isMessageObject(value) ==
    /\ value.t = "object"
    /\ "__typename" \in DOMAIN value.v
    /\ "id" \in DOMAIN value.v

\* Variant: the value is pushed at the end of the array.
updateArrayField_Push(existing, index, value) ==
    Append(IF existing = {} THEN <<>> ELSE CHOOSE a \in existing : TRUE, value)

\* next = Array.isArray(existing) ? [...existing] : []; next[index] = value
updateArrayField(existing, index, value) ==
    LET prev == IF existing = {} THEN <<>> ELSE CHOOSE a \in existing : TRUE
    IN  [i \in 1..Max(Len(prev), index + 1) |->
            IF i = index + 1 THEN value
            ELSE IF i <= Len(prev) THEN prev[i]
            ELSE Hole]

\* current[field], with a value that is not an array represented by {}
FieldOf(m, field) == IF field \in DOMAIN m THEN {m[field]} ELSE {}

\* Variant: an index without a tracker entry addresses the message table
\* by position.
Target_ByPosition(C, messageIdx) ==
    IF messageIdx \in DOMAIN C.tracker
    THEN MapGet(C.R.messageStore, C.tracker[messageIdx])
    ELSE IF messageIdx + 1 <= Len(C.R.messageStore)
    THEN {C.R.messageStore[messageIdx + 1]}
    ELSE {}

\* tracker.get(messageIdx) followed by messageStore.get(messageId)
Target(C, messageIdx) ==
    IF messageIdx \notin DOMAIN C.tracker THEN {}
    ELSE MapGet(C.R.messageStore, C.tracker[messageIdx])

applyArrayFieldUpdate(C, inc, item, subs) ==
    LET messageIdx == getMessageIndexFromPath(inc)
        field == getFieldFromPath(inc)
        arrayIdx == getArrayIndexFromPath(inc)
    IN  IF "path" \notin DOMAIN inc \/ messageIdx = {} THEN C
        ELSE IF field = {} \/ arrayIdx = {} THEN C
        ELSE IF field # {"arguments"} /\ field # {"content"} THEN C
        ELSE LET k == CHOOSE x \in messageIdx : TRUE
                 f == CHOOSE x \in field : TRUE
                 j == CHOOSE x \in arrayIdx : TRUE
                 found == Target(C, k)
             IN  IF found = {} THEN C
                 ELSE LET current == CHOOSE m \in found : TRUE
                          updated == Spread(current,
                              [x \in {f} |-> updateArrayField(FieldOf(current, f), j, item)])
                      IN  [C EXCEPT !.R = storeMessage(C.R, updated, subs)]

\* handleIncrementalData without the final restoration of id and __typename.
handleIncrementalData_NoRestore(C, inc, subs) ==
    LET messageIdx == getMessageIndexFromPath(inc)
    IN  IF messageIdx = {} THEN C
        ELSE LET found == Target(C, CHOOSE x \in messageIdx : TRUE)
             IN  IF found = {} THEN C
                 ELSE LET current == CHOOSE m \in found : TRUE
                          updated == Spread(current, inc.data)
                      IN  [C EXCEPT !.R = storeMessage(C.R, updated, subs)]

handleIncrementalData(C, inc, subs) ==
    LET messageIdx == getMessageIndexFromPath(inc)
    IN  IF messageIdx = {} THEN C
        ELSE LET found == Target(C, CHOOSE x \in messageIdx : TRUE)
             IN  IF found = {} THEN C
                 ELSE LET current == CHOOSE m \in found : TRUE
                          updated == Spread(Spread(current, inc.data),
                              [id |-> current.id, __typename |-> current.__typename])
                      IN  [C EXCEPT !.R = storeMessage(C.R, updated, subs)]

\* One iteration of the loop over inc.items.
handleItem(C, inc, item, subs) ==
    IF isMessageObject(item)
    THEN LET R1 == storeMessage(C.R, item.v, subs)
             messageIdx == getMessageIndexFromPath(inc)
         IN  IF R1.thrown \/ messageIdx = {} THEN [C EXCEPT !.R = R1]
             ELSE LET k == CHOOSE x \in messageIdx : TRUE
                  IN  [R |-> R1,
                       tracker |-> [i \in (DOMAIN C.tracker) \cup {k} |->
                                        IF i = k THEN item.v.id ELSE C.tracker[i]]]
    ELSE IF item.t = "string" THEN applyArrayFieldUpdate(C, inc, item.v, subs)
    ELSE C

RECURSIVE handleIncrementalItemsFrom(_, _, _, _)
handleIncrementalItemsFrom(C, inc, i, subs) ==
    IF i > Len(inc.items) \/ C.R.thrown THEN C
    ELSE handleIncrementalItemsFrom(handleItem(C, inc, inc.items[i], subs), inc, i + 1, subs)

handleIncrementalItems(C, inc, subs) == handleIncrementalItemsFrom(C, inc, 1, subs)

\* One iteration of incremental.forEach: items first, then data.
handleIncrementalEntry(C, inc, subs) ==
    LET C1 == IF "items" \in DOMAIN inc THEN handleIncrementalItems(C, inc, subs) ELSE C
    IN  IF C1.R.thrown \/ "data" \notin DOMAIN inc THEN C1
        ELSE handleIncrementalData(C1, inc, subs)

RECURSIVE processIncrementalFrom(_, _, _, _)
processIncrementalFrom(C, incremental, i, subs) ==
    IF i > Len(incremental) \/ C.R.thrown THEN C
    ELSE processIncrementalFrom(handleIncrementalEntry(C, incremental[i], subs),
                                incremental, i + 1, subs)

processIncrementalPayload(C, incremental, subs) ==
    processIncrementalFrom(C, incremental, 1, subs)

RECURSIVE storeMessagesFrom(_, _, _, _)
storeMessagesFrom(R, messages, i, subs) ==
    IF i > Len(messages) \/ R.thrown THEN R
    ELSE LET message == messages[i]
             R1 == IF "__typename" \in DOMAIN message /\ "id" \in DOMAIN message
                   THEN storeMessage(R, message, subs)
                   ELSE R
         IN  storeMessagesFrom(R1, messages, i + 1, subs)

processDataPayload(R, data, subs) ==
    IF Wrapper \notin DOMAIN data THEN R
    ELSE LET response == data[Wrapper]
         IN  IF "messages" \in DOMAIN response
             THEN storeMessagesFrom(R, response.messages, 1, subs)
             ELSE R

\* Variant: the incremental list is applied before the snapshot.
processPayload_IncrementalFirst(C, payload, subs) ==
    LET C1 == IF "incremental" \in DOMAIN payload
              THEN processIncrementalPayload(C, payload.incremental, subs)
              ELSE C
    IN  IF C1.R.thrown \/ "data" \notin DOMAIN payload THEN C1
        ELSE [C1 EXCEPT !.R = processDataPayload(C1.R, payload.data, subs)]

processPayload(C, payload, subs) ==
    LET C1 == IF "data" \in DOMAIN payload
              THEN [C EXCEPT !.R = processDataPayload(C.R, payload.data, subs)]
              ELSE C
    IN  IF C1.R.thrown \/ "incremental" \notin DOMAIN payload THEN C1
        ELSE processIncrementalPayload(C1, payload.incremental, subs)

\* The body of payloads.forEach in processChunk: the catch clause ends the
\* propagation of an exception raised while the payload was applied.
applyPayload(C, payload, subs) ==
    LET C1 == processPayload(C, payload, subs)
    IN  [C1 EXCEPT !.R.thrown = FALSE, !.R.failed = C.R.failed \/ C1.R.thrown]

\* Variant: one tracker is shared by all records.
getTracker_Shared(recordId, trackers) ==
    IF trackers = <<>> THEN <<>>
    ELSE trackers[CHOOSE r \in DOMAIN trackers : TRUE]

\* getTracker(recordId, trackers)
getTracker(recordId, trackers) ==
    IF recordId \in DOMAIN trackers THEN trackers[recordId] ELSE <<>>

(***************************************************************************)
(* Inputs: messages and payloads as the runtime sends them                 *)
(***************************************************************************)
Act(id, name, createdAt) ==
    [__typename |-> ActionType, id |-> id, createdAt |-> createdAt,
     name |-> name, arguments |-> <<>>]

Text(id, createdAt) ==
    [__typename |-> TextType, id |-> id, createdAt |-> createdAt,
     role |-> "assistant", content |-> <<"hi">>]

MessagesPath(k) == <<Str(Wrapper), Str("messages"), Num(k)>>

FieldPath(k, field, j) == MessagesPath(k) \o <<Str(field), Num(j)>>

\* {"data":{"generateCopilotResponse":{"messages":[...]}}}
Snapshot(messages) == [data |-> [generateCopilotResponse |-> [messages |-> messages]]]

\* {"incremental":[{"path":[...,"messages",k],"items":[message]}]}
Items(k, message) ==
    [incremental |-> <<[path |-> MessagesPath(k), items |-> <<Obj(message)>>]>>]

\* {"incremental":[{"path":[...,"messages",k,field,j],"items":[string]}]}
StringPatch(k, field, j, string) ==
    [incremental |-> <<[path |-> FieldPath(k, field, j), items |-> <<Str(string)>>]>>]

\* {"incremental":[{"path":[...,"messages",k],"data":{...}}]}
DataPatch(k, data) ==
    [incremental |-> <<[path |-> MessagesPath(k), data |-> data]>>]

NoId == [__typename |-> TextType, createdAt |-> At1]
NoTypename == [id |-> "m9", createdAt |-> At1]

StatusData == [status |-> "success"]
RenameData == [id |-> "m9", __typename |-> TextType, name |-> "lookup", createdAt |-> At3]

SnapshotPayloads ==
    {Snapshot(<<Text("m1", At1)>>),
     Snapshot(<<Act("m2", "search", At1), NoId, NoTypename, Act("m3", "search", At3)>>)}

ItemsPayloads ==
    {Items(0, Act("m1", "search", At2)),
     Items(1, Act("m2", "search", At1)),
     Items(0, Act("m3", "search", At3)),
     Items(1, Act("m2", "lookup", At2b)),
     Items(0, Text("m1", At1))}

StringPatchPayloads ==
    {StringPatch(0, "content", 0, "a"),
     StringPatch(0, "content", 1, "b"),
     StringPatch(0, "content", 2, "c"),
     StringPatch(1, "arguments", 1, "{}"),
     StringPatch(0, "role", 0, "user"),
     [incremental |-> <<[path |-> <<Str(Wrapper), Num(0), Str("content"), Num(0)>>,
                         items |-> <<Str("a")>>]>>]}

DataPatchPayloads ==
    {DataPatch(0, StatusData),
     DataPatch(1, RenameData)}

\* One payload whose incremental list patches positions 0, 1 and 2 of the
\* content of the message at index 0.
FullContent == <<"a", "b", "c">>

ThreePatches ==
    [incremental |->
        [j \in 1..3 |-> [path |-> FieldPath(0, "content", j - 1),
                         items |-> <<Str(FullContent[j])>>]]]

Payloads ==
    SnapshotPayloads \cup ItemsPayloads \cup StringPatchPayloads \cup DataPatchPayloads
        \cup {ThreePatches}

\* What each stream delivers: the second stream carries an entry for index 0
\* and patches of that index.
PayloadsOf(recordId) ==
    IF recordId = "r1" THEN Payloads
    ELSE {Items(0, Act("m3", "search", At3)),
          StringPatch(0, "content", 0, "a"),
          DataPatch(0, StatusData)}

(***************************************************************************)
(* Operations                                                              *)
(***************************************************************************)
Range(seq) == {seq[i] : i \in 1..Len(seq)}

\* AskUserQuestionRenderer when the action is announced: status inProgress,
\* no respond callback yet, nothing submitted, respond never called.
InitialRenderer ==
    [status |-> "inProgress", respond |-> FALSE, isSubmitted |-> FALSE, responded |-> 0]

\* The fetch the browser provides, installed before any logger mounts.
NativeFetch == "fetch"

\* options?.maxEntries ?? 25
DefaultMaxEntries == 25

\* maxEntries with no option given, and nothing under the storage key.
NotPersisted == [maxEntries |-> DefaultMaxEntries, entries |-> <<>>]

Idle == [op |-> "none"]

Init ==
    /\ messageStore = <<>>
    /\ messagesByType = <<>>
    /\ actionExecutionMessages = <<>>
    /\ subscribers = <<>>
    /\ messageTrackers = <<>>
    /\ parserStates = <<>>
    /\ wire = <<>>
    /\ sent = 0
    /\ emitted = <<>>
    /\ calls = <<>>
    /\ puts = <<>>
    /\ dropped = {}
    /\ lastOp = Idle
    /\ steps = 0
    /\ rawResponseStore = <<>>
    /\ processedChunkCounts = <<>>
    /\ source = <<>>
    /\ extracted = <<>>
    /\ selectedAction = {}
    /\ actionHistory = <<>>
    /\ persisted = NotPersisted
    /\ windowFetch = NativeFetch
    /\ loggers = <<>>
    /\ renderer = InitialRenderer

\* subscribeToAguiMessages(callback)
Subscribe(callback) ==
    /\ steps < MaxSteps
    /\ subscribers' = IF callback \in Range(subscribers) THEN subscribers
                      ELSE Append(subscribers, callback)
    /\ calls' = <<>>
    /\ puts' = <<>>
    /\ lastOp' = [op |-> "subscribe", callback |-> callback]
    /\ steps' = steps + 1
    /\ UNCHANGED <<storeVars, messageTrackers, extractVars, dropped,
                 streamVars, detailVars>>

\* The function returned by subscribeToAguiMessages(callback)
Unsubscribe(callback) ==
    /\ steps < MaxSteps
    /\ callback \in Range(subscribers)
    /\ subscribers' = SelectSeq(subscribers, LAMBDA c : c # callback)
    /\ calls' = <<>>
    /\ puts' = <<>>
    /\ lastOp' = [op |-> "unsubscribe", callback |-> callback]
    /\ steps' = steps + 1
    /\ UNCHANGED <<storeVars, messageTrackers, extractVars, dropped,
                 streamVars, detailVars>>

\* Variant: the latest-by-action-name index is not cleared.
resetAguiMessageRegistry_KeepsLatest ==
    /\ steps < MaxSteps
    /\ messageStore' = <<>>
    /\ messagesByType' = <<>>
    /\ calls' = <<>>
    /\ puts' = <<>>
    /\ lastOp' = [op |-> "reset", cleared |-> Len(messageStore)]
    /\ steps' = steps + 1
    /\ UNCHANGED <<actionExecutionMessages, subscribers, messageTrackers, extractVars, dropped,
                 streamVars, detailVars>>

resetAguiMessageRegistry ==
    /\ steps < MaxSteps
    /\ messageStore' = <<>>
    /\ messagesByType' = <<>>
    /\ actionExecutionMessages' = <<>>
    /\ calls' = <<>>
    /\ puts' = <<>>
    /\ lastOp' = [op |-> "reset", cleared |-> Len(messageStore)]
    /\ steps' = steps + 1
    /\ UNCHANGED <<subscribers, messageTrackers, extractVars, dropped,
                 streamVars, detailVars>>

\* The index a patch payload addresses (patch payloads hold one entry).
PatchPayloads == StringPatchPayloads \cup DataPatchPayloads \cup {ThreePatches}

PatchIndex(payload) == getMessageIndexFromPath(payload.incremental[1])

\* The payload is a patch of an index that has no entry in the stream's tracker.
Unresolved(recordId, payload) ==
    /\ payload \in PatchPayloads
    /\ PatchIndex(payload) # {}
    /\ \A k \in PatchIndex(payload) : k \notin DOMAIN getTracker(recordId, messageTrackers)

\* The registry handles a chunk of stream recordId whose text is one complete
\* payload: the extractor, which starts and ends outside any object, returns
\* that text, JSON.parse yields payload, and processPayload applies it.
ProcessChunk(recordId, payload) ==
    /\ steps < MaxSteps
    /\ getParserState(recordId, parserStates).depth = 0
    /\ parserStates' =
            [r \in (DOMAIN parserStates) \cup {recordId} |->
                IF r = recordId THEN getParserState(recordId, parserStates)
                ELSE parserStates[r]]
    /\ LET C0 == [R |-> Registry, tracker |-> getTracker(recordId, messageTrackers)]
           C1 == applyPayload(C0, payload, subscribers)
       IN  /\ messageStore' = C1.R.messageStore
           /\ messagesByType' = C1.R.messagesByType
           /\ actionExecutionMessages' = C1.R.actionExecutionMessages
           /\ calls' = C1.R.calls
           /\ puts' = C1.R.puts
           /\ messageTrackers' =
                [r \in (DOMAIN messageTrackers) \cup {recordId} |->
                    IF r = recordId THEN C1.tracker ELSE messageTrackers[r]]
           /\ lastOp' = [op |-> "processChunk", recordId |-> recordId,
                         payload |-> payload, failed |-> C1.R.failed,
                         again |-> /\ lastOp.op = "processChunk"
                                   /\ lastOp.recordId = recordId
                                   /\ lastOp.payload = payload]
    /\ dropped' = IF Unresolved(recordId, payload)
                  THEN dropped \cup {[recordId |-> recordId, payload |-> payload]}
                  ELSE dropped
    /\ steps' = steps + 1
    /\ UNCHANGED <<subscribers, wire, sent, emitted,
                 streamVars, detailVars>>

Next ==
    \/ \E callback \in Callbacks : Subscribe(callback)
    \/ \E callback \in Callbacks : Unsubscribe(callback)
    \/ resetAguiMessageRegistry
    \/ \E recordId \in Records : \E payload \in PayloadsOf(recordId) : ProcessChunk(recordId, payload)

Spec == Init /\ [][Next]_vars

(***************************************************************************)
(* Payloads that carry a snapshot and an incremental list                  *)
(***************************************************************************)
\* {"data":{...messages:[m1,m2]},"incremental":[{path:[..,0],items:[m3],
\* data:{status}},{path:[..,0,"arguments",0],items:["{}"]}]}
Combined ==
    Spread(Snapshot(<<Text("m1", At1), Act("m2", "search", At1)>>),
           [incremental |->
               <<[path |-> MessagesPath(0),
                  items |-> <<Obj(Act("m3", "search", At3))>>,
                  data |-> StatusData],
                 [path |-> FieldPath(0, "arguments", 0),
                  items |-> <<Str("{}")>>]>>])

\* The same with the patch of index 0 ahead of the entry that names it.
Reordered ==
    Spread(Snapshot(<<Act("m2", "search", At1)>>),
           [incremental |->
               <<[path |-> FieldPath(0, "content", 0),
                  items |-> <<Str("a")>>],
                 [path |-> MessagesPath(0),
                  items |-> <<Obj(Text("m1", At1))>>,
                  data |-> StatusData]>>])

\* {"incremental":[{"path":[..,"messages",0],"items":[m1,m2]}]}
TwoItems ==
    [incremental |->
        <<[path |-> MessagesPath(0),
           items |-> <<Obj(Act("m1", "search", At1)), Obj(Text("m2", At2))>>]>>]

OrderPayloads ==
    {Combined, Reordered, TwoItems, Items(1, Act("m1", "search", At2)),
     DataPatch(0, RenameData)}

NextOrder ==
    \/ \E callback \in Callbacks : Subscribe(callback)
    \/ \E recordId \in Records : \E payload \in OrderPayloads :
            ProcessChunk(recordId, payload)

SpecOrder == Init /\ [][NextOrder]_vars

(***************************************************************************)
(* The extractor fed with a text cut into chunks                           *)
(***************************************************************************)
InitExtract ==
    /\ messageStore = <<>>
    /\ messagesByType = <<>>
    /\ actionExecutionMessages = <<>>
    /\ subscribers = <<>>
    /\ messageTrackers = <<>>
    /\ parserStates = <<>>
    /\ wire \in Texts
    /\ sent = 0
    /\ emitted = <<>>
    /\ calls = <<>>
    /\ puts = <<>>
    /\ dropped = {}
    /\ lastOp = Idle
    /\ steps = 0
    /\ rawResponseStore = <<>>
    /\ processedChunkCounts = <<>>
    /\ source = <<>>
    /\ extracted = <<>>
    /\ selectedAction = {}
    /\ actionHistory = <<>>
    /\ persisted = NotPersisted
    /\ windowFetch = NativeFetch
    /\ loggers = <<>>
    /\ renderer = InitialRenderer

\* The stream source delivers the next n characters of the text as one
\* chunk, which is handed to the extractor with the stream's parser state.
FeedChunk(recordId, n) ==
    /\ sent + n <= Len(wire)
    /\ LET chunk == SubSeq(wire, sent + 1, sent + n)
           X == extractJsonPayloads(chunk, getParserState(recordId, parserStates))
       IN  /\ parserStates' =
                [r \in (DOMAIN parserStates) \cup {recordId} |->
                    IF r = recordId THEN X.state ELSE parserStates[r]]
           /\ emitted' = emitted \o X.payloads
           /\ lastOp' = [op |-> "extract", recordId |-> recordId, chunk |-> chunk]
    /\ sent' = sent + n
    /\ steps' = steps + 1
    /\ UNCHANGED <<storeVars, subscribers, messageTrackers, wire, calls, puts, dropped,
                 streamVars, detailVars>>

NextExtract == \E n \in 1..Len(wire) : FeedChunk("r1", n)

SpecExtract == InitExtract /\ [][NextExtract]_vars

(***************************************************************************)
(* Action messages of one name with equal and unequal instants             *)
(***************************************************************************)
\* At2 and At2b are two spellings of one instant.
RecencyPayloads ==
    {Items(0, Act(id, "search", t)) : id \in {"m1", "m2", "m3"}, t \in {At2, At2b}}
        \cup {Items(0, Act("m3", "search", At3)),
              Snapshot(<<Act("m1", "search", At2), Act("m2", "search", At2b)>>)}

NextRecency ==
    \/ resetAguiMessageRegistry
    \/ \E payload \in RecencyPayloads : ProcessChunk("r1", payload)

SpecRecency == Init /\ [][NextRecency]_vars

(***************************************************************************)
(* Streams: RawResponseLogger records and the registry's subscription      *)
(***************************************************************************)
\* {"data":{"generateCopilotResponse":{"messages":[{"__typename":"TextMes
\* sageOutput","id":"m1","createdAt":"2024-01-01T00:00:01Z","role":"assis
\* tant","content":["hi"]}]}}}
SnapshotText ==
    <<"{", "\"", "d", "a", "t", "a", "\"", ":", "{", "\"", "g", "e", "n", "e",
      "r", "a", "t", "e", "C", "o", "p", "i", "l", "o", "t", "R", "e", "s",
      "p", "o", "n", "s", "e", "\"", ":", "{", "\"", "m", "e", "s", "s", "a",
      "g", "e", "s", "\"", ":", "[", "{", "\"", "_", "_", "t", "y", "p", "e",
      "n", "a", "m", "e", "\"", ":", "\"", "T", "e", "x", "t", "M", "e", "s",
      "s", "a", "g", "e", "O", "u", "t", "p", "u", "t", "\"", ",", "\"", "i",
      "d", "\"", ":", "\"", "m", "1", "\"", ",", "\"", "c", "r", "e", "a", "t",
      "e", "d", "A", "t", "\"", ":", "\"", "2", "0", "2", "4", "-", "0", "1",
      "-", "0", "1", "T", "0", "0", ":", "0", "0", ":", "0", "1", "Z", "\"",
      ",", "\"", "r", "o", "l", "e", "\"", ":", "\"", "a", "s", "s", "i", "s",
      "t", "a", "n", "t", "\"", ",", "\"", "c", "o", "n", "t", "e", "n", "t",
      "\"", ":", "[", "\"", "h", "i", "\"", "]", "}", "]", "}", "}", "}">>

\* {oops}
MalformedText ==
    <<"{", "o", "o", "p", "s", "}">>

\* {"incremental":[{"path":["generateCopilotResponse","messages",1],"item
\* s":[{"__typename":"ActionExecutionMessageOutput","id":"m2","createdAt"
\* :"2024-01-01T00:00:01Z","name":"search","arguments":[]}]}]}
ItemsM2Text ==
    <<"{", "\"", "i", "n", "c", "r", "e", "m", "e", "n", "t", "a", "l", "\"",
      ":", "[", "{", "\"", "p", "a", "t", "h", "\"", ":", "[", "\"", "g", "e",
      "n", "e", "r", "a", "t", "e", "C", "o", "p", "i", "l", "o", "t", "R",
      "e", "s", "p", "o", "n", "s", "e", "\"", ",", "\"", "m", "e", "s", "s",
      "a", "g", "e", "s", "\"", ",", "1", "]", ",", "\"", "i", "t", "e", "m",
      "s", "\"", ":", "[", "{", "\"", "_", "_", "t", "y", "p", "e", "n", "a",
      "m", "e", "\"", ":", "\"", "A", "c", "t", "i", "o", "n", "E", "x", "e",
      "c", "u", "t", "i", "o", "n", "M", "e", "s", "s", "a", "g", "e", "O",
      "u", "t", "p", "u", "t", "\"", ",", "\"", "i", "d", "\"", ":", "\"", "m",
      "2", "\"", ",", "\"", "c", "r", "e", "a", "t", "e", "d", "A", "t", "\"",
      ":", "\"", "2", "0", "2", "4", "-", "0", "1", "-", "0", "1", "T", "0",
      "0", ":", "0", "0", ":", "0", "1", "Z", "\"", ",", "\"", "n", "a", "m",
      "e", "\"", ":", "\"", "s", "e", "a", "r", "c", "h", "\"", ",", "\"", "a",
      "r", "g", "u", "m", "e", "n", "t", "s", "\"", ":", "[", "]", "}", "]",
      "}", "]", "}">>

\* {"incremental":[{"path":["generateCopilotResponse","messages",1,"argum
\* ents",1],"items":["{}"]}]}
ArgumentsPatchText ==
    <<"{", "\"", "i", "n", "c", "r", "e", "m", "e", "n", "t", "a", "l", "\"",
      ":", "[", "{", "\"", "p", "a", "t", "h", "\"", ":", "[", "\"", "g", "e",
      "n", "e", "r", "a", "t", "e", "C", "o", "p", "i", "l", "o", "t", "R",
      "e", "s", "p", "o", "n", "s", "e", "\"", ",", "\"", "m", "e", "s", "s",
      "a", "g", "e", "s", "\"", ",", "1", ",", "\"", "a", "r", "g", "u", "m",
      "e", "n", "t", "s", "\"", ",", "1", "]", ",", "\"", "i", "t", "e", "m",
      "s", "\"", ":", "[", "\"", "{", "}", "\"", "]", "}", "]", "}">>

\* {"incremental":[{"path":["generateCopilotResponse","messages",0],"item
\* s":[{"__typename":"ActionExecutionMessageOutput","id":"m3","createdAt"
\* :"2024-01-01T00:00:03Z","name":"search","arguments":[]}]}]}
ItemsM3Text ==
    <<"{", "\"", "i", "n", "c", "r", "e", "m", "e", "n", "t", "a", "l", "\"",
      ":", "[", "{", "\"", "p", "a", "t", "h", "\"", ":", "[", "\"", "g", "e",
      "n", "e", "r", "a", "t", "e", "C", "o", "p", "i", "l", "o", "t", "R",
      "e", "s", "p", "o", "n", "s", "e", "\"", ",", "\"", "m", "e", "s", "s",
      "a", "g", "e", "s", "\"", ",", "0", "]", ",", "\"", "i", "t", "e", "m",
      "s", "\"", ":", "[", "{", "\"", "_", "_", "t", "y", "p", "e", "n", "a",
      "m", "e", "\"", ":", "\"", "A", "c", "t", "i", "o", "n", "E", "x", "e",
      "c", "u", "t", "i", "o", "n", "M", "e", "s", "s", "a", "g", "e", "O",
      "u", "t", "p", "u", "t", "\"", ",", "\"", "i", "d", "\"", ":", "\"", "m",
      "3", "\"", ",", "\"", "c", "r", "e", "a", "t", "e", "d", "A", "t", "\"",
      ":", "\"", "2", "0", "2", "4", "-", "0", "1", "-", "0", "1", "T", "0",
      "0", ":", "0", "0", ":", "0", "3", "Z", "\"", ",", "\"", "n", "a", "m",
      "e", "\"", ":", "\"", "s", "e", "a", "r", "c", "h", "\"", ",", "\"", "a",
      "r", "g", "u", "m", "e", "n", "t", "s", "\"", ":", "[", "]", "}", "]",
      "}", "]", "}">>

\* {"incremental":[{"path":["generateCopilotResponse","messages",0],"data
\* ":{"status":"success"}}]}
StatusPatchText ==
    <<"{", "\"", "i", "n", "c", "r", "e", "m", "e", "n", "t", "a", "l", "\"",
      ":", "[", "{", "\"", "p", "a", "t", "h", "\"", ":", "[", "\"", "g", "e",
      "n", "e", "r", "a", "t", "e", "C", "o", "p", "i", "l", "o", "t", "R",
      "e", "s", "p", "o", "n", "s", "e", "\"", ",", "\"", "m", "e", "s", "s",
      "a", "g", "e", "s", "\"", ",", "0", "]", ",", "\"", "d", "a", "t", "a",
      "\"", ":", "{", "\"", "s", "t", "a", "t", "u", "s", "\"", ":", "\"", "s",
      "u", "c", "c", "e", "s", "s", "\"", "}", "}", "]", "}">>

\* {"incremental":[
TruncatedText ==
    <<"{", "\"", "i", "n", "c", "r", "e", "m", "e", "n", "t", "a", "l", "\"",
      ":", "[">>

\* JSON.parse of a payload text: the parsed value, or no value when it
\* throws a SyntaxError.
JSONParse(text) ==
    CASE text = SnapshotText -> {Snapshot(<<Text("m1", At1)>>)}
      [] text = ItemsM2Text -> {Items(1, Act("m2", "search", At1))}
      [] text = ArgumentsPatchText -> {StringPatch(1, "arguments", 1, "{}")}
      [] text = ItemsM3Text -> {Items(0, Act("m3", "search", At3))}
      [] text = StatusPatchText -> {DataPatch(0, StatusData)}
      [] OTHER -> {}

\* What the body of each response delivers, as the pieces the reader may
\* return; a read returns one piece or two adjacent pieces as one chunk.
ScriptOf(recordId) ==
    IF recordId = "r1"
    THEN <<SubSeq(SnapshotText, 1, Len(SnapshotText) - 9),
           SubSeq(SnapshotText, Len(SnapshotText) - 8, Len(SnapshotText)),
           MalformedText \o <<"\n">> \o ItemsM2Text \o ArgumentsPatchText,
           TruncatedText>>
    ELSE <<SubSeq(ItemsM3Text, 1, Len(ItemsM3Text) \div 2),
           SubSeq(ItemsM3Text, Len(ItemsM3Text) \div 2 + 1, Len(ItemsM3Text))
               \o StatusPatchText>>

RECURSIVE Flatten(_)
Flatten(texts) ==
    IF texts = <<>> THEN <<>> ELSE texts[1] \o Flatten(Tail(texts))

\* Map.set and Map.delete on the per-record maps
MapPut(map, key, value) ==
    [k \in (DOMAIN map) \cup {key} |-> IF k = key THEN value ELSE map[k]]

MapDelete(map, key) == [k \in (DOMAIN map) \ {key} |-> map[k]]

\* What the try/catch around one payload leaves: C1 is the context after
\* applyPayload; log records what became of the payload text.
afterPayload(C, text, C1) ==
    [R |-> C1.R, tracker |-> C1.tracker, parser |-> C.parser, fed |-> C.fed,
     log |-> Append(C.log,
                [text |-> text,
                 outcome |-> IF C1.R.failed THEN "raised" ELSE "applied"])]

\* The body of forEach in processChunk: JSON.parse and processPayload inside
\* try/catch.
processPayloadText(C, text, subs) ==
    IF JSONParse(text) = {}
    THEN [C EXCEPT !.log = Append(@, [text |-> text, outcome |-> "SyntaxError"])]
    ELSE afterPayload(C, text,
            applyPayload([R |-> [C.R EXCEPT !.failed = FALSE], tracker |-> C.tracker],
                         CHOOSE p \in JSONParse(text) : TRUE, subs))

\* Variant: no try/catch, the first payload that fails ends the forEach.
RECURSIVE processPayloadTexts_Unprotected(_, _, _)
processPayloadTexts_Unprotected(C, texts, subs) ==
    IF texts = <<>> THEN C
    ELSE LET C1 == processPayloadText(C, texts[1], subs)
         IN  IF C1.log[Len(C1.log)].outcome = "applied"
             THEN processPayloadTexts_Unprotected(C1, Tail(texts), subs)
             ELSE [C1 EXCEPT !.R.thrown = TRUE]

RECURSIVE processPayloadTexts(_, _, _)
processPayloadTexts(C, texts, subs) ==
    IF texts = <<>> THEN C
    ELSE processPayloadTexts(processPayloadText(C, texts[1], subs), Tail(texts), subs)

\* X is what extractJsonPayloads returned and left in the parser state.
processExtracted(C, X, subs) ==
    processPayloadTexts([C EXCEPT !.parser = X.state], X.payloads, subs)

\* fed records the texts processChunk was called with.
processChunk(C, chunk, subs) ==
    processExtracted([C EXCEPT !.fed = Append(@, chunk)],
                     extractJsonPayloads(chunk, C.parser), subs)

RECURSIVE processChunks(_, _, _)
processChunks(C, chunks, subs) ==
    IF chunks = <<>> THEN C
    ELSE processChunks(processChunk(C, chunks[1], subs), Tail(chunks), subs)

\* Variant: the number of processed chunks is not advanced.
afterChunks_CountNotAdvanced(H, recordId, record, C) ==
    IF record.completed
    THEN [R |-> C.R, log |-> C.log, fed |-> C.fed,
          trackers |-> MapDelete(H.trackers, recordId),
          parsers |-> MapDelete(H.parsers, recordId),
          counts |-> MapDelete(H.counts, recordId)]
    ELSE [R |-> C.R, log |-> C.log, fed |-> C.fed,
          trackers |-> MapPut(H.trackers, recordId, C.tracker),
          parsers |-> MapPut(H.parsers, recordId, C.parser),
          counts |-> H.counts]

\* The end of the callback: the chunks have been processed, leaving C
afterChunks(H, recordId, record, C) ==
    IF record.completed
    THEN [R |-> C.R, log |-> C.log, fed |-> C.fed,
          trackers |-> MapDelete(H.trackers, recordId),
          parsers |-> MapDelete(H.parsers, recordId),
          counts |-> MapDelete(H.counts, recordId)]
    ELSE [R |-> C.R, log |-> C.log, fed |-> C.fed,
          trackers |-> MapPut(H.trackers, recordId, C.tracker),
          parsers |-> MapPut(H.parsers, recordId, C.parser),
          counts |-> MapPut(H.counts, recordId, Len(record.chunks))]

\* Variant: when a record completes, what is left in the parser's buffer is
\* handed on as a payload.
handleRecord_FlushAtEnd(H, recordId, record, subs) ==
    LET previousCount ==
            IF recordId \in DOMAIN H.counts THEN H.counts[recordId] ELSE 0
        parser == getParserState(recordId, H.parsers)
    IN  IF Len(record.chunks) <= previousCount
        THEN IF record.completed
             THEN [H EXCEPT !.trackers = MapDelete(@, recordId),
                            !.counts = MapDelete(@, recordId),
                            !.log = IF parser.depth > 0
                                    THEN <<[text |-> parser.buffer,
                                            outcome |-> "SyntaxError"]>>
                                    ELSE <<>>]
             ELSE H
        ELSE afterChunks(H, recordId, record,
                processChunks(
                    [R |-> H.R,
                     tracker |-> getTracker(recordId, H.trackers),
                     parser |-> parser,
                     log |-> <<>>, fed |-> <<>>],
                    SubSeq(record.chunks, previousCount + 1, Len(record.chunks)),
                    subs))

\* Variant: when a record completes, the messages its tracker names are
\* taken out of the store.
handleRecord_ForgetsOnCompletion(H, recordId, record, subs) ==
    LET previousCount ==
            IF recordId \in DOMAIN H.counts THEN H.counts[recordId] ELSE 0
        tracker == getTracker(recordId, H.trackers)
        tracked == {tracker[k] : k \in DOMAIN tracker}
    IN  IF Len(record.chunks) <= previousCount
        THEN IF record.completed
             THEN [H EXCEPT !.trackers = MapDelete(@, recordId),
                            !.counts = MapDelete(@, recordId),
                            !.R.messageStore =
                                SelectSeq(@, LAMBDA m : m.id \notin tracked)]
             ELSE H
        ELSE afterChunks(H, recordId, record,
                processChunks(
                    [R |-> H.R,
                     tracker |-> tracker,
                     parser |-> getParserState(recordId, H.parsers),
                     log |-> <<>>, fed |-> <<>>],
                    SubSeq(record.chunks, previousCount + 1, Len(record.chunks)),
                    subs))

\* The callback useAguiMessageRegistry passes to subscribeToRawResponses
handleRecord(H, recordId, record, subs) ==
    LET previousCount ==
            IF recordId \in DOMAIN H.counts THEN H.counts[recordId] ELSE 0
    IN  IF Len(record.chunks) <= previousCount
        THEN IF record.completed
             THEN [H EXCEPT !.trackers = MapDelete(@, recordId),
                            !.counts = MapDelete(@, recordId)]
             ELSE H
        ELSE afterChunks(H, recordId, record,
                processChunks(
                    [R |-> H.R,
                     tracker |-> getTracker(recordId, H.trackers),
                     parser |-> getParserState(recordId, H.parsers),
                     log |-> <<>>, fed |-> <<>>],
                    SubSeq(record.chunks, previousCount + 1, Len(record.chunks)),
                    subs))

\* The state the registry's callback leaves, H, becomes the next state.
handled(recordId, record, op, H) ==
    /\ messageStore' = H.R.messageStore
    /\ messagesByType' = H.R.messagesByType
    /\ actionExecutionMessages' = H.R.actionExecutionMessages
    /\ calls' = H.R.calls
    /\ puts' = H.R.puts
    /\ messageTrackers' = H.trackers
    /\ parserStates' = H.parsers
    /\ processedChunkCounts' = H.counts
    /\ extracted' = MapPut(extracted, recordId,
            (IF recordId \in DOMAIN extracted THEN extracted[recordId] ELSE <<>>)
                \o [i \in 1..Len(H.log) |-> H.log[i].text])
    /\ lastOp' = [op |-> op, recordId |-> recordId, notified |-> record,
                  log |-> H.log, fed |-> H.fed, escaped |-> H.R.thrown]

\* notify(record): the registry's callback is the subscriber.
notify(recordId, record, op) ==
    handled(recordId, record, op,
        handleRecord([R |-> Registry, log |-> <<>>, fed |-> <<>>,
                      trackers |-> messageTrackers,
                      parsers |-> parserStates,
                      counts |-> processedChunkCounts],
                     recordId, record, subscribers))

\* updateRecord(recordId, updater), updated being what the updater returns
updateRecord(recordId, updated, op) ==
    /\ recordId \in DOMAIN rawResponseStore
    /\ rawResponseStore' = [rawResponseStore EXCEPT ![recordId] = updated]
    /\ notify(recordId, updated, op)

\* Variant: the error is recorded and the record is left open.
failRecord_LeftOpen(prev, message) == [prev EXCEPT !.error = {message}]

\* The updater of the two catch clauses
failRecord(prev, message) == [prev EXCEPT !.completed = TRUE, !.error = {message}]

streamFrame == <<subscribers, wire, sent, emitted, dropped, steps, detailVars, persisted,
                 fetchVars, renderer>>

\* The wrapper installed on window.fetch is called: createRecord
Fetch(recordId) ==
    /\ recordId \notin DOMAIN source
    /\ LET record == [chunks |-> <<>>, completed |-> FALSE, error |-> {},
                      status |-> {}]
       IN  /\ rawResponseStore' = MapPut(rawResponseStore, recordId, record)
           /\ notify(recordId, record, "createRecord")
    /\ source' = MapPut(source, recordId,
                    [phase |-> "fetching", delivered |-> 0, rethrown |-> FALSE])
    /\ UNCHANGED streamFrame

\* originalFetch resolves: the status is recorded and recordResponseStream
\* starts; a response without body completes the record at once (the
\* registry's callback returns at once on the status notification, the
\* record holding no chunk and being open).
FetchResolves(recordId, hasBody) ==
    /\ recordId \in DOMAIN source
    /\ source[recordId].phase = "fetching"
    /\ LET prev == rawResponseStore[recordId]
       IN  updateRecord(recordId,
               [prev EXCEPT !.status = {200}, !.completed = ~hasBody],
               "response")
    /\ source' = [source EXCEPT ![recordId].phase =
                        IF hasBody THEN "reading" ELSE "closed"]
    /\ UNCHANGED streamFrame

\* originalFetch rejects: the catch clause of the wrapper, which re-throws
FetchRejects(recordId) ==
    /\ recordId \in DOMAIN source
    /\ source[recordId].phase = "fetching"
    /\ updateRecord(recordId, failRecord(rawResponseStore[recordId], "Failed to fetch"),
                    "fetchError")
    /\ source' = [source EXCEPT ![recordId].phase = "closed",
                                ![recordId].rethrown = TRUE]
    /\ UNCHANGED streamFrame

\* reader.read() returns the next n pieces of the body: appendChunk
ReadChunk(recordId, n) ==
    /\ recordId \in DOMAIN source
    /\ source[recordId].phase = "reading"
    /\ source[recordId].delivered + n <= Len(ScriptOf(recordId))
    /\ LET prev == rawResponseStore[recordId]
           text == Flatten(SubSeq(ScriptOf(recordId), source[recordId].delivered + 1,
                                  source[recordId].delivered + n))
       IN  updateRecord(recordId, [prev EXCEPT !.chunks = Append(@, text)], "appendChunk")
    /\ source' = [source EXCEPT ![recordId].delivered = @ + n]
    /\ UNCHANGED streamFrame

\* reader.read() returns done
ReadDone(recordId) ==
    /\ recordId \in DOMAIN source
    /\ source[recordId].phase = "reading"
    /\ source[recordId].delivered = Len(ScriptOf(recordId))
    /\ updateRecord(recordId, [rawResponseStore[recordId] EXCEPT !.completed = TRUE],
                    "done")
    /\ source' = [source EXCEPT ![recordId].phase = "closed"]
    /\ UNCHANGED streamFrame

\* reader.read() rejects: the catch clause of read, which does not re-throw
ReadFails(recordId) ==
    /\ recordId \in DOMAIN source
    /\ source[recordId].phase = "reading"
    /\ updateRecord(recordId, failRecord(rawResponseStore[recordId], "network error"),
                    "streamError")
    /\ source' = [source EXCEPT ![recordId].phase = "closed"]
    /\ UNCHANGED streamFrame

\* The store's subscribers are registered before the first request.
InitStream ==
    /\ messageStore = <<>>
    /\ messagesByType = <<>>
    /\ actionExecutionMessages = <<>>
    /\ subscribers \in {<<>>, <<"cbA">>, <<"cbThrow", "cbA">>}
    /\ messageTrackers = <<>>
    /\ parserStates = <<>>
    /\ wire = <<>>
    /\ sent = 0
    /\ emitted = <<>>
    /\ calls = <<>>
    /\ puts = <<>>
    /\ dropped = {}
    /\ lastOp = Idle
    /\ steps = 0
    /\ rawResponseStore = <<>>
    /\ processedChunkCounts = <<>>
    /\ source = <<>>
    /\ extracted = <<>>
    /\ selectedAction = {}
    /\ actionHistory = <<>>
    /\ persisted = NotPersisted
    /\ windowFetch = NativeFetch
    /\ loggers = <<>>
    /\ renderer = InitialRenderer

NextStream ==
    \E recordId \in Records :
        \/ Fetch(recordId)
        \/ \E hasBody \in BOOLEAN : FetchResolves(recordId, hasBody)
        \/ FetchRejects(recordId)
        \/ \E n \in 1..2 : ReadChunk(recordId, n)
        \/ ReadDone(recordId)
        \/ ReadFails(recordId)

SpecStream == InitStream /\ [][NextStream]_vars

\* A session: the streams, with resetAguiMessageRegistry called at any time.
NextSession ==
    \/ NextStream
    \/ resetAguiMessageRegistry

SpecSession == InitStream /\ [][NextSession]_vars

(***************************************************************************)
(* ActionDetailContext: the selected action and the action history         *)
(***************************************************************************)
\* ActionDetail objects; one id may come with a newer status.
ActionDetails ==
    [id : {"a1", "a2", "a3"}, actionName : {"search"},
     status : {"executing", "complete"}]

\* prev.findIndex((a) => a.id === action.id); 0-based, -1 when absent
findIndexById(prev, id) ==
    LET found == {i \in 1..Len(prev) : prev[i].id = id}
    IN  IF found = {} THEN -1
        ELSE (CHOOSE i \in found : \A j \in found : i <= j) - 1

\* Variant: the action is put in front without removing its earlier entry.
updateHistory_NoRemoval(prev, action) == <<action>> \o prev

\* The updater selectAction passes to setActionHistory
updateHistory(prev, action) ==
    LET existingIndex == findIndexById(prev, action.id)
    IN  IF existingIndex >= 0
        THEN <<action>> \o SubSeq(prev, 1, existingIndex)
                        \o SubSeq(prev, existingIndex + 2, Len(prev))
        ELSE <<action>> \o prev

selectAction(action) ==
    /\ selectedAction' = {action}
    /\ actionHistory' = updateHistory(actionHistory, action)
    /\ lastOp' = [op |-> "selectAction", action |-> action,
                  existingIndex |-> findIndexById(actionHistory, action.id)]
    /\ UNCHANGED <<storeVars, subscribers, messageTrackers, extractVars, calls,
                   puts, dropped, steps, streamVars>>

clearAction ==
    /\ selectedAction' = {}
    /\ lastOp' = [op |-> "clearAction"]
    /\ UNCHANGED <<storeVars, subscribers, messageTrackers, extractVars, calls,
                   puts, dropped, steps, streamVars, actionHistory>>

NextDetail ==
    \/ \E action \in ActionDetails : selectAction(action)
    \/ clearAction

SpecDetail == Init /\ [][NextDetail]_vars

(***************************************************************************)
(* ask_user_question: the renderer in the chat and the form in the panel   *)
(***************************************************************************)
\* The greatest number of calls of respond the model follows.
MaxResponds == 2

\* generateActionId("ask-user", uniqueId, args, status): the id changes
\* with the status.
AskId(status) ==
    CASE status = "inProgress" -> "ask-user-:r1:-inProgr"
      [] status = "executing" -> "ask-user-:r1:-executi"
      [] status = "complete" -> "ask-user-:r1:-complete"

\* The actionDetail of a render: args._respond and args._onSubmit close over
\* the respond of that render, args._isSubmitted and args._submittedAnswers
\* are the state of that render (submittedAnswers is set with isSubmitted).
actionDetail(r) ==
    [id |-> AskId(r.status), actionName |-> "ask_user_question", status |-> r.status,
     respond |-> r.respond, isSubmitted |-> r.isSubmitted]

\* What AskUserQuestionDetailRenderer shows for an action whose questions
\* are loaded.
PanelView(action) ==
    LET isSubmitted == action.isSubmitted \/ action.status = "complete"
        submittedAnswers == action.isSubmitted
    IN  IF isSubmitted /\ submittedAnswers THEN "SubmittedView" ELSE "QuestionnaireForm"

\* CopilotKit re-renders the action with a new status: executing comes with
\* a respond callback, complete follows a call of respond and comes without.
\* The effect selects the action when it executes and is not submitted.
StatusChanges ==
    /\ \/ /\ renderer.status = "inProgress"
          /\ renderer' = [renderer EXCEPT !.status = "executing", !.respond = TRUE]
       \/ /\ renderer.status = "executing"
          /\ renderer.responded > 0
          /\ renderer' = [renderer EXCEPT !.status = "complete", !.respond = FALSE]
    /\ IF renderer'.status = "executing" /\ ~renderer'.isSubmitted
       THEN /\ selectedAction' = {actionDetail(renderer')}
            /\ actionHistory' = updateHistory(actionHistory, actionDetail(renderer'))
       ELSE UNCHANGED detailVars
    /\ lastOp' = [op |-> "render", status |-> renderer'.status]
    /\ UNCHANGED <<storeVars, subscribers, messageTrackers, extractVars, calls,
                   puts, dropped, steps, rawResponseStore, processedChunkCounts,
                   source, extracted, persisted, fetchVars>>

\* The user, having answered every question, clicks Submit in the form the
\* panel shows for the selected action: handleSubmit calls the _onSubmit of
\* that action. The renderer re-renders submitted, so its effect selects
\* nothing.
ClickSubmit ==
    /\ renderer.responded < MaxResponds
    /\ \E action \in selectedAction :
          /\ action.actionName = "ask_user_question"
          /\ PanelView(action) = "QuestionnaireForm"
          /\ renderer' = [renderer EXCEPT
                            !.isSubmitted = TRUE,
                            !.responded = IF action.respond THEN @ + 1 ELSE @]
          /\ lastOp' = [op |-> "submit", action |-> action]
    /\ UNCHANGED <<storeVars, subscribers, messageTrackers, extractVars, calls,
                   puts, dropped, steps, rawResponseStore, processedChunkCounts,
                   source, extracted, persisted, fetchVars, detailVars>>

\* The user picks another action of the history in the panel's dropdown.
SwitchAction(i) ==
    /\ Len(actionHistory) > 1
    /\ i \in 1..Len(actionHistory)
    /\ \E current \in selectedAction : actionHistory[i].id # current.id
    /\ selectAction(actionHistory[i])

NextAsk ==
    \/ StatusChanges
    \/ ClickSubmit
    \/ selectAction(actionDetail(renderer))
    \/ \E i \in 1..3 : SwitchAction(i)
    \/ clearAction

SpecAsk == Init /\ [][NextAsk]_vars

(***************************************************************************)
(* persistRawResponsesLocally: the bounded local cache                     *)
(***************************************************************************)
\* The greatest maxEntries option the model passes.
MaxEntriesBound == 2

PersistIds == {"p1", "p2", "p3"}

\* JSON.parse(JSON.stringify(record)): properties whose value is undefined
\* are left out.
JSONRoundTrip(recordId, record) ==
    LET defined == {"id", "chunks", "completed"}
                       \cup (IF record.error = {} THEN {} ELSE {"error"})
                       \cup (IF record.status = {} THEN {} ELSE {"status"})
    IN  [f \in defined |->
            CASE f = "id" -> recordId
              [] f = "chunks" -> record.chunks
              [] f = "completed" -> record.completed
              [] f = "error" -> CHOOSE e \in record.error : TRUE
              [] f = "status" -> CHOOSE s \in record.status : TRUE]

\* Variant: the entries beyond maxEntries are cut off at the end.
persistRecord_DropsNewest(P, entry, ok) ==
    LET existingIndex == findIndexById(P.entries, entry.id)
        entries == IF existingIndex >= 0
                   THEN [P.entries EXCEPT ![existingIndex + 1] = entry]
                   ELSE Append(P.entries, entry)
    IN  IF ~ok THEN P
        ELSE [P EXCEPT !.entries =
                IF Len(entries) > P.maxEntries
                THEN SubSeq(entries, 1, P.maxEntries)
                ELSE entries]

\* The callback persistRawResponsesLocally subscribes; ok is FALSE when
\* localStorage.setItem throws, which the catch clause swallows.
persistRecord(P, entry, ok) ==
    LET existingIndex == findIndexById(P.entries, entry.id)
        entries == IF existingIndex >= 0
                   THEN [P.entries EXCEPT ![existingIndex + 1] = entry]
                   ELSE Append(P.entries, entry)
    IN  IF ~ok THEN P
        ELSE [P EXCEPT !.entries =
                IF Len(entries) > P.maxEntries
                THEN SubSeq(entries, Len(entries) - P.maxEntries + 1, Len(entries))
                ELSE entries]

\* notify(record) with the cache's callback as the subscriber
PersistNotify(recordId, record, ok) ==
    /\ rawResponseStore' = MapPut(rawResponseStore, recordId, record)
    /\ persisted' = persistRecord(persisted, JSONRoundTrip(recordId, record), ok)
    /\ lastOp' = [op |-> "persist", recordId |-> recordId, ok |-> ok,
                  entry |-> JSONRoundTrip(recordId, record),
                  existingIndex |-> findIndexById(persisted.entries, recordId)]
    /\ UNCHANGED <<storeVars, subscribers, messageTrackers, extractVars, calls,
                   puts, dropped, steps, processedChunkCounts, source, extracted,
                   detailVars, fetchVars, renderer>>

\* createRecord
PersistCreated(recordId, ok) ==
    /\ recordId \notin DOMAIN rawResponseStore
    /\ PersistNotify(recordId,
            [chunks |-> <<>>, completed |-> FALSE, error |-> {}, status |-> {}], ok)

\* updateRecord: a chunk is appended, the stream ends, or it fails
PersistUpdated(recordId, ok) ==
    /\ recordId \in DOMAIN rawResponseStore
    /\ ~rawResponseStore[recordId].completed
    /\ \E updated \in
            {[rawResponseStore[recordId] EXCEPT !.chunks = Append(@, <<"{", "}">>)],
             [rawResponseStore[recordId] EXCEPT !.completed = TRUE],
             failRecord(rawResponseStore[recordId], "network error")} :
          /\ Len(updated.chunks) <= 1
          /\ PersistNotify(recordId, updated, ok)

InitPersist ==
    /\ messageStore = <<>>
    /\ messagesByType = <<>>
    /\ actionExecutionMessages = <<>>
    /\ subscribers = <<>>
    /\ messageTrackers = <<>>
    /\ parserStates = <<>>
    /\ wire = <<>>
    /\ sent = 0
    /\ emitted = <<>>
    /\ calls = <<>>
    /\ puts = <<>>
    /\ dropped = {}
    /\ lastOp = Idle
    /\ steps = 0
    /\ rawResponseStore = <<>>
    /\ processedChunkCounts = <<>>
    /\ source = <<>>
    /\ extracted = <<>>
    /\ selectedAction = {}
    /\ actionHistory = <<>>
    /\ persisted \in {NotPersisted}
            \cup {[maxEntries |-> n, entries |-> <<>>] : n \in 1..MaxEntriesBound}
    /\ windowFetch = NativeFetch
    /\ loggers = <<>>
    /\ renderer = InitialRenderer

NextPersist ==
    \E recordId \in PersistIds : \E ok \in BOOLEAN :
        \/ PersistCreated(recordId, ok)
        \/ PersistUpdated(recordId, ok)

SpecPersist == InitPersist /\ [][NextPersist]_vars

(***************************************************************************)
(* useRawResponseLogger: the wrappers installed on window.fetch            *)
(***************************************************************************)
\* The effects of the mounted hooks; the wrapper an effect installs is
\* named after the effect.
LoggerInstances == {"h1", "h2", "h3"}

\* The wrappers a call of fetch f runs through, outermost first: a wrapper
\* calls the originalFetch its effect captured.
RECURSIVE CallPath(_)
CallPath(f) ==
    IF f = NativeFetch THEN <<>>
    ELSE <<f>> \o CallPath(loggers[f].originalFetch)

\* The effect of useRawResponseLogger runs.
MountLogger(h) ==
    /\ h \notin DOMAIN loggers
    /\ loggers' = MapPut(loggers, h, [originalFetch |-> windowFetch, mounted |-> TRUE])
    /\ windowFetch' = h
    /\ lastOp' = [op |-> "mount", logger |-> h]
    /\ UNCHANGED <<storeVars, subscribers, messageTrackers, extractVars, calls,
                   puts, dropped, steps, rawResponseStore, processedChunkCounts,
                   source, extracted, persisted, detailVars, renderer>>

\* The cleanup of the effect runs.
UnmountLogger(h) ==
    /\ h \in DOMAIN loggers
    /\ loggers[h].mounted
    /\ loggers' = [loggers EXCEPT ![h].mounted = FALSE]
    /\ windowFetch' = loggers[h].originalFetch
    /\ lastOp' = [op |-> "unmount", logger |-> h]
    /\ UNCHANGED <<storeVars, subscribers, messageTrackers, extractVars, calls,
                   puts, dropped, steps, rawResponseStore, processedChunkCounts,
                   source, extracted, persisted, detailVars, renderer>>

\* window.fetch is called with a URL the loggers record: every wrapper on
\* the call path creates a record of its own.
CallFetch ==
    /\ lastOp' = [op |-> "fetch", path |-> CallPath(windowFetch)]
    /\ UNCHANGED <<storeVars, subscribers, messageTrackers, extractVars, calls,
                   puts, dropped, steps, streamVars, detailVars>>

NextFetch ==
    \/ \E h \in LoggerInstances : MountLogger(h)
    \/ \E h \in LoggerInstances : UnmountLogger(h)
    \/ CallFetch

SpecFetch == Init /\ [][NextFetch]_vars

(***************************************************************************)
(* Properties of the extractor (checked under SpecExtract)                 *)
(***************************************************************************)
\* C1: when every character of a complete JSON object has been delivered,
\* however the text was cut into chunks, the extractor has emitted exactly
\* one payload, the object itself, as it does when the text is one chunk.
ChunkBoundaryInvariance ==
    (wire \in CompleteObjects /\ sent = Len(wire)) => emitted = <<wire>>

\* A complete object delivered in at least three chunks, one of which ended
\* inside a string literal.
ChunkBoundaryWitness ==
    /\ wire = EscapedQuoteInString
    /\ sent = Len(wire)
    /\ steps >= 3
    /\ lastOp.op = "extract"
    /\ lastOp.chunk = <<"}", "\"", "}">>
    /\ emitted = <<wire>>

\* C2: for an object whose string value holds '{', '}' or an escaped '"',
\* nothing is emitted before the last character, the depth stays 1 at every
\* chunk boundary inside the object, and the one payload emitted at the end
\* is the whole object.
StringSafety ==
    wire \in StringObjects =>
        IF sent = Len(wire)
        THEN emitted = <<wire>> /\ getParserState("r1", parserStates).depth = 0
        ELSE emitted = <<>> /\ (sent > 0 => getParserState("r1", parserStates).depth = 1)

\* The scanner stands inside the string literal just after its '}'.
StringSafetyWitness ==
    /\ wire = CloseBraceInString
    /\ sent = 7
    /\ lastOp.op = "extract"
    /\ lastOp.chunk = <<"}">>
    /\ getParserState("r1", parserStates).inString
    /\ emitted = <<>>

(***************************************************************************)
(* Properties of the interpreter and the store (checked under Spec)        *)
(***************************************************************************)
Ids == {"m1", "m2", "m3", "m9"}
Types == {ActionType, TextType}
Names == {"search", "lookup"}
Indexes == 0..1
ArrayFields == {"content", "arguments"}
Positions == 0..2
PatchStrings == {"a", "b", "c", "{}"}

Tracker(recordId) == getTracker(recordId, messageTrackers)

\* The step is processChunk of payload on stream recordId.
ChunkStep(recordId, payload) ==
    /\ lastOp'.op = "processChunk"
    /\ lastOp'.recordId = recordId
    /\ lastOp'.payload = payload

\* Index k of the stream resolves to a message of the store.
Resolved(recordId, k) ==
    /\ k \in DOMAIN Tracker(recordId)
    /\ MapHas(messageStore, Tracker(recordId)[k])

\* The message index k of the stream resolves to.
MessageAt(recordId, k) == messageStore[MapPos(messageStore, Tracker(recordId)[k])]

TimeOf(m) == DateGetTime(m.createdAt)

StoredActions(name) ==
    {m \in Range(messageStore) : m.__typename = ActionType /\ NameOf(m) = name}

\* C3: after a snapshot payload has put message m found at position k of
\* messages, the tracker of the stream maps k to m.id.
SnapshotEstablishesIndex ==
    (lastOp.op = "processChunk" /\ lastOp.payload \in SnapshotPayloads) =>
        LET messages == lastOp.payload.data[Wrapper].messages
        IN  \A k \in 1..Len(messages) :
                messages[k] \in Range(puts) =>
                    /\ (k - 1) \in DOMAIN Tracker(lastOp.recordId)
                    /\ Tracker(lastOp.recordId)[k - 1] = messages[k].id

\* C4: a data patch or string patch whose index has no tracker entry for
\* the stream changes neither the store nor its indexes nor the tracker,
\* invokes no subscriber and raises nothing; a patch that was dropped and is
\* delivered again when its index resolves to a stored message is applied to
\* that message.
DroppedPatchStep ==
    \A recordId \in Records, payload \in PatchPayloads :
        (ChunkStep(recordId, payload) /\ Unresolved(recordId, payload)) =>
            /\ UNCHANGED storeVars
            /\ getTracker(recordId, messageTrackers') = Tracker(recordId)
            /\ calls' = <<>>
            /\ puts' = <<>>
            /\ ~lastOp'.failed

ReplayedDataPatchStep ==
    \A recordId \in Records, k \in Indexes, data \in {StatusData, RenameData} :
        (/\ ChunkStep(recordId, DataPatch(k, data))
         /\ [recordId |-> recordId, payload |-> DataPatch(k, data)] \in dropped
         /\ Resolved(recordId, k)) =>
            \E m \in MapGet(messageStore', Tracker(recordId)[k]) :
                \A f \in (DOMAIN data) \ {"id", "__typename"} :
                    f \in DOMAIN m /\ m[f] = data[f]

ReplayedStringPatchStep ==
    \A recordId \in Records, k \in Indexes, f \in ArrayFields, j \in Positions,
       string \in PatchStrings :
        (/\ ChunkStep(recordId, StringPatch(k, f, j, string))
         /\ [recordId |-> recordId, payload |-> StringPatch(k, f, j, string)] \in dropped
         /\ Resolved(recordId, k)) =>
            \E m \in MapGet(messageStore', Tracker(recordId)[k]) :
                f \in DOMAIN m /\ Len(m[f]) > j /\ m[f][j + 1] = string

PatchOrderingTolerance ==
    [][DroppedPatchStep /\ ReplayedDataPatchStep /\ ReplayedStringPatchStep]_vars

\* A data patch that was dropped earlier has now been applied.
PatchReplayWitness ==
    /\ lastOp.op = "processChunk"
    /\ lastOp.payload = DataPatch(0, StatusData)
    /\ [recordId |-> lastOp.recordId, payload |-> lastOp.payload] \in dropped
    /\ Len(puts) = 1
    /\ puts[1].status = "success"
    /\ MapGet(messageStore, puts[1].id) = {puts[1]}

\* C5: a string patch to position j of content or arguments of a resolved
\* message sets that position, keeps every other position it had and fills
\* the positions between the old length and j with empty slots; three
\* patches to positions 0, 1 and 2 applied one after another leave the field
\* equal to the array of the three strings.
SinglePatchStep ==
    \A recordId \in Records, k \in Indexes, f \in ArrayFields, j \in Positions,
       string \in PatchStrings :
        (ChunkStep(recordId, StringPatch(k, f, j, string)) /\ Resolved(recordId, k)) =>
            LET current == MessageAt(recordId, k)
                old == IF f \in DOMAIN current THEN current[f] ELSE <<>>
            IN  \E m \in MapGet(messageStore', current.id) :
                    /\ f \in DOMAIN m
                    /\ Len(m[f]) = Max(Len(old), j + 1)
                    /\ m[f][j + 1] = string
                    /\ \A i \in 1..Len(old) : i # j + 1 => m[f][i] = old[i]
                    /\ \A i \in (Len(old) + 1)..j : m[f][i] = Hole

ThreePatchStep ==
    \A recordId \in Records :
        (ChunkStep(recordId, ThreePatches) /\ Resolved(recordId, 0) /\ Len(puts') = 3) =>
            \E m \in MapGet(messageStore', Tracker(recordId)[0]) :
                m.content = FullContent

ArrayFieldGrowth == [][SinglePatchStep /\ ThreePatchStep]_vars

\* The three patches of one payload have rebuilt the content of an action
\* message, which had none.
ArrayGrowthWitness ==
    /\ lastOp.op = "processChunk"
    /\ lastOp.payload = ThreePatches
    /\ Len(puts) = 3
    /\ "content" \notin DOMAIN puts[1] \/ puts[1].content = <<"a">>
    /\ puts[1].__typename = ActionType
    /\ MapGet(messageStore, puts[3].id) = {puts[3]}
    /\ puts[3].content = FullContent

\* C6: among the stored action messages of one name, when their createdAt
\* instants are pairwise distinct, shouldRenderAction is true for exactly
\* one, the one with the greatest createdAt.
RecencyDedup ==
    \A a \in Range(messageStore) :
        a.__typename = ActionType =>
            LET same == StoredActions(NameOf(a))
            IN  (\A x, y \in same : x # y => TimeOf(x) # TimeOf(y)) =>
                    /\ Cardinality({x \in same : shouldRenderAction(x)}) = 1
                    /\ shouldRenderAction(a) <=> \A x \in same : TimeOf(x) <= TimeOf(a)

\* Three actions named search are stored, the newest first.
RecencyWitness ==
    /\ Len(messageStore) = 3
    /\ \A i \in 1..3 : messageStore[i].__typename = ActionType
                       /\ messageStore[i].name = "search"
    /\ TimeOf(messageStore[1]) = 3
    /\ TimeOf(messageStore[2]) = 2
    /\ TimeOf(messageStore[3]) = 1
    /\ shouldRenderAction(messageStore[1])
    /\ ~shouldRenderAction(messageStore[3])

\* C7: whatever getLatestActionExecution(name) returns is the stored action
\* message of that name with the greatest createdAt.
LatestIsMostRecentlyCreated ==
    \A name \in Names :
        \A m \in getLatestActionExecution(name) :
            /\ m \in StoredActions({name})
            /\ \A x \in StoredActions({name}) : TimeOf(x) <= TimeOf(m)
            /\ shouldRenderAction(m)

\* C8: processing a snapshot payload a second time in a row leaves the
\* message table, the by-type index and the latest-by-name index as the
\* first processing left them.
IdempotentReplacement ==
    [][(/\ lastOp'.op = "processChunk"
        /\ lastOp'.payload \in SnapshotPayloads
        /\ lastOp'.again) => UNCHANGED storeVars]_vars

\* A snapshot of two messages has been processed twice in a row.
IdempotentWitness ==
    /\ lastOp.op = "processChunk"
    /\ lastOp.payload \in SnapshotPayloads
    /\ lastOp.again
    /\ Len(puts) = 2
    /\ Len(messageStore) = 2

\* C9: every put of the last step invoked every subscribed callback exactly
\* once, with the message put and with the table and the indexes already
\* holding it; no callback that is not subscribed was invoked.
SubscriberNotification ==
    lastOp.op = "processChunk" =>
        /\ \A c \in 1..Len(calls) : calls[c].callback \in Range(subscribers)
        /\ \A i \in 1..Len(puts), callback \in Range(subscribers) :
              LET made == {c \in 1..Len(calls) :
                              calls[c].callback = callback /\ calls[c].put = i}
              IN  /\ Cardinality(made) = 1
                  /\ \A c \in made : calls[c].message = puts[i] /\ calls[c].reflected

\* C10: a reset leaves no message under any id, none under any type and no
\* latest action under any name, and leaves the subscribers as they were.
ResetClearsIndexes ==
    [][lastOp'.op = "reset" =>
        /\ \A id \in Ids : getAguiMessage(id)' = {}
        /\ \A t \in Types : getAguiMessagesByType(t)' = {}
        /\ \A name \in Names : getLatestActionExecution(name)' = {}
        /\ subscribers' = subscribers]_vars

\* A reset has cleared a store that held messages while a callback was
\* subscribed.
ResetWitness ==
    /\ lastOp.op = "reset"
    /\ lastOp.cleared > 0
    /\ subscribers # <<>>
    /\ messageStore = <<>>

\* C12: a data patch applied to the stored message its index resolves to
\* leaves the id and the __typename of that message as they were, even when
\* data holds id or __typename keys, gives every other key of data the value
\* data holds for it, and leaves every field data does not name unchanged.
PatchPreservesIdentity ==
    [][\A recordId \in Records, k \in Indexes, data \in {StatusData, RenameData} :
        (ChunkStep(recordId, DataPatch(k, data)) /\ Resolved(recordId, k)) =>
            LET current == MessageAt(recordId, k)
            IN  \E m \in getAguiMessage(current.id)' :
                    /\ m.id = current.id
                    /\ m.__typename = current.__typename
                    /\ DOMAIN m = DOMAIN current \cup DOMAIN data
                    /\ \A f \in DOMAIN m \ {"id", "__typename"} :
                          m[f] = IF f \in DOMAIN data THEN data[f] ELSE current[f]]_vars

\* A data patch carrying id and __typename keys has been applied to an action
\* message: the message kept its id and kind, took the name and createdAt of
\* the patch and kept its arguments.
PatchIdentityWitness ==
    /\ lastOp.op = "processChunk"
    /\ lastOp.payload = DataPatch(1, RenameData)
    /\ Len(puts) = 1
    /\ puts[1].id = "m2"
    /\ puts[1].__typename = ActionType
    /\ puts[1].name = "lookup"
    /\ puts[1].createdAt = At3
    /\ "arguments" \in DOMAIN puts[1]
    /\ getAguiMessage("m2") = {puts[1]}
    /\ getAguiMessage("m9") = {}

\* C20: between two resets the __typename stored under an id is the same in
\* every state in which the id is in the store.
KindNeverChanges ==
    [][lastOp'.op # "reset" =>
        \A id \in Ids : \A before \in getAguiMessage(id) :
            \A after \in getAguiMessage(id)' :
                after.__typename = before.__typename]_vars

\* The ids of the store in Map order.
StoreIds(ms) == [i \in 1..Len(ms) |-> ms[i].id]

\* The same-name actions of the store whose instant equals that of a.
TiedWith(a) == {m \in StoredActions(NameOf(a)) : TimeOf(m) = TimeOf(a)}

\* C13: a put keeps every id of the store at its place and adds new ids at
\* the end, so the place of an id tells when it entered; and among stored
\* actions of one name with equal createdAt instants, shouldRenderAction is
\* true for the one that entered last exactly when no same-name action has a
\* later instant, and false for every other one.
TieBreakLastInserted ==
    [][(lastOp'.op # "reset" =>
            /\ Len(messageStore) <= Len(messageStore')
            /\ SubSeq(StoreIds(messageStore'), 1, Len(messageStore))
                    = StoreIds(messageStore))
       /\ \A name \in Names : \A a \in StoredActions({name})' :
              Cardinality(TiedWith(a)') > 1 =>
                  (shouldRenderAction(a)' <=>
                      /\ \A m \in TiedWith(a)' :
                            MapPos(messageStore', m.id) <= MapPos(messageStore', a.id)
                      /\ \A m \in StoredActions({name})' : TimeOf(m) <= TimeOf(a))]_vars

\* m1 and m2 are search actions of one instant, m1 entered first and was put
\* again last: m2 is rendered and m1 is not.
TieBreakWitness ==
    /\ StoreIds(messageStore) = <<"m1", "m2">>
    /\ lastOp.op = "processChunk"
    /\ lastOp.payload = Items(0, Act("m1", "search", At2))
    /\ getAguiMessage("m2") = {Act("m2", "search", At2b)}
    /\ steps = 3
    /\ shouldRenderAction(Act("m2", "search", At2b))
    /\ ~shouldRenderAction(Act("m1", "search", At2))

\* C19: after every selectAction and clearAction, actionHistory holds no two
\* entries of one id, and the selected action, when there is one, is its
\* first entry; selectAction puts the action first and keeps the other
\* entries in their order; clearAction leaves no selected action and leaves
\* actionHistory as it was.
ActionHistoryOrder ==
    [][/\ \A i, j \in 1..Len(actionHistory') :
              actionHistory'[i].id = actionHistory'[j].id => i = j
       /\ selectedAction' # {} =>
              /\ actionHistory' # <<>>
              /\ selectedAction' = {actionHistory'[1]}
       /\ lastOp'.op = "selectAction" =>
              /\ selectedAction' = {lastOp'.action}
              /\ actionHistory'[1] = lastOp'.action
              /\ Tail(actionHistory') =
                    SelectSeq(actionHistory, LAMBDA a : a.id # lastOp'.action.id)
       /\ lastOp'.op = "clearAction" =>
              /\ selectedAction' = {}
              /\ actionHistory' = actionHistory]_vars

\* An action that was the third entry of the history has been selected
\* again with a newer status: it is the first of three entries.
ActionHistoryWitness ==
    /\ lastOp.op = "selectAction"
    /\ lastOp.existingIndex = 2
    /\ lastOp.action.status = "complete"
    /\ Len(actionHistory) = 3
    /\ actionHistory[1] = lastOp.action
    /\ selectedAction = {lastOp.action}

(***************************************************************************)
(* Properties of the streams (checked under SpecStream)                    *)
(***************************************************************************)
\* C18: when the registry has handled the notification of a completed
\* record, it holds no parser state, no index tracker and no processed-chunk
\* count for the id of that record.
TerminationDiscardsState ==
    \A recordId \in DOMAIN rawResponseStore :
        rawResponseStore[recordId].completed =>
            /\ recordId \notin DOMAIN parserStates
            /\ recordId \notin DOMAIN messageTrackers
            /\ recordId \notin DOMAIN processedChunkCounts

\* The step is the logger's update op of record recordId.
RecordStep(recordId, op) ==
    /\ lastOp'.op = op
    /\ lastOp'.recordId = recordId

\* The step ends the body of record recordId, by done or by a read error.
BodyEnds(recordId) ==
    RecordStep(recordId, "done") \/ RecordStep(recordId, "streamError")

\* The texts of the complete objects the bodies hold.
CompleteTexts ==
    {SnapshotText, MalformedText, ItemsM2Text, ArgumentsPatchText, ItemsM3Text,
     StatusPatchText}

\* C14: when a body ends while an object is open, the step hands no text to
\* JSON.parse, logs no error, puts no message, calls no subscriber and
\* leaves the store as it was; and every text ever extracted from a stream
\* is a complete object of its body, never the open remainder.
TruncatedObjectIgnored ==
    [][\A recordId \in Records :
        /\ (BodyEnds(recordId) /\ getParserState(recordId, parserStates).depth > 0) =>
              /\ lastOp'.log = <<>>
              /\ UNCHANGED storeVars
              /\ puts' = <<>>
              /\ calls' = <<>>
              /\ extracted'[recordId] = extracted[recordId]
        /\ recordId \in DOMAIN extracted' =>
              \A i \in 1..Len(extracted'[recordId]) :
                  /\ extracted'[recordId][i] \in CompleteTexts
                  /\ getParserState(recordId, parserStates').depth > 0 =>
                        extracted'[recordId][i]
                            # getParserState(recordId, parserStates').buffer]_vars

\* The body of r1 has ended after its last chunk left an object open: the
\* four complete objects were extracted and the store holds their messages.
TruncatedObjectWitness ==
    /\ lastOp.op = "done"
    /\ lastOp.recordId = "r1"
    /\ lastOp.log = <<>>
    /\ getParserState("r1", parserStates).buffer = TruncatedText
    /\ extracted["r1"] =
            <<SnapshotText, MalformedText, ItemsM2Text, ArgumentsPatchText>>
    /\ getAguiMessage("m1") # {}
    /\ getAguiMessage("m2") # {}

\* C15: a chunk is handled payload by payload: every payload the extractor
\* returns for it is handed on, in order, whatever became of the payloads
\* before it; a payload fails with a SyntaxError exactly when JSON.parse
\* rejects it, and then changes nothing; a payload raises only when a
\* subscriber throws; nothing escapes processChunk; the parser state is the
\* one the extractor left; and the messages of the valid payloads of the
\* chunk are in the store afterwards.
FaultIsolation ==
    [][\A recordId \in Records :
        RecordStep(recordId, "appendChunk") =>
            LET chunks == lastOp'.notified.chunks
                X == extractJsonPayloads(chunks[Len(chunks)],
                                         getParserState(recordId, parserStates))
                log == lastOp'.log
            IN  /\ [i \in 1..Len(log) |-> log[i].text] = X.payloads
                /\ getParserState(recordId, parserStates') = X.state
                /\ ~lastOp'.escaped
                /\ \A i \in 1..Len(log) :
                      /\ log[i].outcome = "SyntaxError" <=> JSONParse(log[i].text) = {}
                      /\ log[i].outcome = "raised" =>
                            Range(subscribers) \cap Throwing # {}
                      /\ log[i].text = SnapshotText =>
                            getAguiMessage("m1")' = {Text("m1", At1)}
                      /\ log[i].text = ItemsM2Text =>
                            getAguiMessage("m2")' # {}
                      /\ log[i].text = ItemsM3Text =>
                            getAguiMessage("m3")' # {}
                /\ (\A i \in 1..Len(log) : log[i].outcome = "SyntaxError") =>
                      /\ UNCHANGED storeVars
                      /\ puts' = <<>>
                      /\ calls' = <<>>]_vars

\* A chunk held a malformed payload, a payload during which a subscriber
\* threw and a third payload; all three were handled, after an earlier chunk
\* whose payload had raised as well, and the message of the second is stored.
FaultIsolationWitness ==
    /\ lastOp.op = "appendChunk"
    /\ lastOp.recordId = "r1"
    /\ [i \in 1..Len(lastOp.log) |-> lastOp.log[i].outcome]
            = <<"SyntaxError", "raised", "applied">>
    /\ extracted["r1"] =
            <<SnapshotText, MalformedText, ItemsM2Text, ArgumentsPatchText>>
    /\ ~lastOp.escaped
    /\ getAguiMessage("m2") = {Act("m2", "search", At1)}
    /\ getParserState("r1", parserStates).depth = 0

Alone(recordId) ==
    processChunks(
        [R |-> [messageStore |-> <<>>, messagesByType |-> <<>>,
                actionExecutionMessages |-> <<>>, calls |-> <<>>, puts |-> <<>>,
                thrown |-> FALSE, failed |-> FALSE],
         tracker |-> <<>>, parser |-> InitialParserState, log |-> <<>>,
         fed |-> <<>>],
        rawResponseStore[recordId].chunks, subscribers)

\* What the registry keeps for record recordId.
KeptFor(recordId) ==
    <<IF recordId \in DOMAIN parserStates THEN {parserStates[recordId]} ELSE {},
      IF recordId \in DOMAIN messageTrackers THEN {messageTrackers[recordId]} ELSE {},
      IF recordId \in DOMAIN processedChunkCounts
          THEN {processedChunkCounts[recordId]} ELSE {},
      IF recordId \in DOMAIN extracted THEN {extracted[recordId]} ELSE {}>>

\* C17: however the chunks of two records interleave, the payloads extracted
\* from each record, its parser state and its index tracker are the ones
\* that come out when the chunks of that record are processed alone; and a
\* step of one record leaves what the registry keeps for the other as it was.
StreamIndependence ==
    /\ [](\A recordId \in DOMAIN rawResponseStore :
            LET alone == Alone(recordId)
            IN  /\ extracted[recordId] = [i \in 1..Len(alone.log) |-> alone.log[i].text]
                /\ recordId \in DOMAIN parserStates =>
                      parserStates[recordId] = alone.parser
                /\ recordId \in DOMAIN messageTrackers =>
                      messageTrackers[recordId] = alone.tracker)
    /\ [][\A recordId \in Records :
            lastOp'.recordId # recordId => KeptFor(recordId)' = KeptFor(recordId)]_vars

\* The payloads of r2 were completed between chunks of r1: each record has
\* its own tracker, index 0 of r2 and index 1 of r1, and the patch of r2 was
\* applied to the message of r2.
StreamIndependenceWitness ==
    /\ StoreIds(messageStore) = <<"m1", "m3", "m2">>
    /\ "r1" \in DOMAIN messageTrackers
    /\ "r2" \in DOMAIN messageTrackers
    /\ DOMAIN messageTrackers["r1"] = {1}
    /\ messageTrackers["r1"][1] = "m2"
    /\ DOMAIN messageTrackers["r2"] = {0}
    /\ messageTrackers["r2"][0] = "m3"
    /\ extracted["r2"] = <<ItemsM3Text, StatusPatchText>>
    /\ \E m \in getAguiMessage("m3") : "status" \in DOMAIN m

\* C11: after a snapshot payload, every element of messages that has an id
\* and a __typename is the store's entry under its id (unless a later
\* element of the same snapshot has that id), and every message the step put
\* is such an element.
SnapshotInsertion ==
    (lastOp.op = "processChunk" /\ lastOp.payload \in SnapshotPayloads) =>
        LET messages == lastOp.payload.data[Wrapper].messages
            valid == {k \in 1..Len(messages) :
                        "id" \in DOMAIN messages[k] /\ "__typename" \in DOMAIN messages[k]}
        IN  /\ \A k \in valid :
                  (\A j \in valid : j > k => messages[j].id # messages[k].id) =>
                      getAguiMessage(messages[k].id) = {messages[k]}
            /\ puts = [i \in 1..Cardinality(valid) |->
                          messages[CHOOSE k \in valid :
                              Cardinality({j \in valid : j < k}) = i - 1]]

(***************************************************************************)
(* Properties of a session (checked under SpecSession)                     *)
(***************************************************************************)
\* The last message put for id among the puts ps of one step.
LastPut(ps, id) ==
    LET at == {j \in 1..Len(ps) : ps[j].id = id}
    IN  IF at = {} THEN {}
        ELSE {ps[CHOOSE j \in at : \A i \in at : i <= j]}

\* C21: no deletion, no rollback. A step other than resetAguiMessageRegistry
\* (a chunk, a status update, the completion of a stream, a stream error, a
\* dropped patch, a skipped malformed payload) keeps every id of the store,
\* a stored message changes only by a put of its id, and after the step the
\* store holds for every id put in the step the last message put for it.
NoDeletionNoRollback ==
    [][lastOp'.op # "reset" =>
        /\ \A i \in 1..Len(messageStore) :
              LET m == messageStore[i]
              IN  /\ MapHas(messageStore', m.id)
                  /\ LastPut(puts', m.id) = {} => MapGet(messageStore', m.id) = {m}
        /\ \A j \in 1..Len(puts') :
              MapGet(messageStore', puts'[j].id) = LastPut(puts', puts'[j].id)]_vars

\* A stream has ended with an error after a malformed payload was skipped
\* and a patch was dropped, and the store holds the messages put before.
NoDeletionWitness ==
    /\ lastOp.op = "streamError"
    /\ lastOp.recordId = "r1"
    /\ "r1" \in DOMAIN extracted
    /\ MalformedText \in Range(extracted["r1"])
    /\ ArgumentsPatchText \in Range(extracted["r1"])
    /\ MapHas(messageStore, "m1")
    /\ MapGet(messageStore, "m2") = {Act("m2", "search", At1)}
    /\ "r1" \notin DOMAIN messageTrackers

(***************************************************************************)
(* Properties of one payload (checked under SpecOrder)                     *)
(***************************************************************************)
\* What Combined puts, in order: the snapshot messages, then the message of
\* the first entry's items, that message with the entry's data, and that
\* message with the string of the second entry.
CombinedPuts ==
    LET m3 == Act("m3", "search", At3)
        withStatus == Spread(m3, StatusData)
    IN  <<Text("m1", At1), Act("m2", "search", At1), m3, withStatus,
          [withStatus EXCEPT !.arguments = <<"{}">>]>>

IsPrefix(s, t) == Len(s) <= Len(t) /\ s = SubSeq(t, 1, Len(s))

\* C22: order inside one payload. The puts of a payload that carries a
\* snapshot and an incremental list are the snapshot messages, then the
\* incremental entries in array order, items before data within an entry
\* (all of them unless an exception ended the payload, a beginning of that
\* order otherwise); the subscribers are notified of a put before the next
\* put is made.
OrderInsidePayload ==
    [][(lastOp'.op = "processChunk" /\ lastOp'.payload = Combined) =>
        /\ IsPrefix(puts', CombinedPuts)
        /\ ~lastOp'.failed => puts' = CombinedPuts
        /\ \A i \in 1..Len(calls') :
              /\ calls'[i].put \in 1..Len(puts')
              /\ calls'[i].message = puts'[calls'[i].put]
              /\ i > 1 => calls'[i - 1].put <= calls'[i].put
        /\ subscribers # <<>> =>
              \A k \in 1..Len(puts') : \E i \in 1..Len(calls') : calls'[i].put = k]_vars

\* Combined has been applied whole with a subscriber registered.
OrderInsidePayloadWitness ==
    /\ lastOp.op = "processChunk"
    /\ lastOp.payload = Combined
    /\ subscribers = <<"cbA">>
    /\ puts = CombinedPuts
    /\ Len(calls) = Len(puts)

(***************************************************************************)
(* Properties of the registry's subscription (checked under SpecStream)    *)
(***************************************************************************)
\* The chunks of record recordId in the raw-response store rs.
ChunksOf(rs, recordId) ==
    IF recordId \in DOMAIN rs THEN rs[recordId].chunks ELSE <<>>

\* C23: exactly-once, in-order chunk processing. At every notification of a
\* record (creation, status, chunk, completion, error) the texts passed to
\* processChunk are the chunks the record gained with that notification, in
\* chunk order, so a chunk is passed once, when it arrives, and never again;
\* the payloads handled in the step are the ones that chunk completes, each
\* with its outcome, before the step ends.
ExactlyOnceInOrder ==
    [][\A recordId \in Records :
          lastOp'.recordId = recordId =>
              LET before == ChunksOf(rawResponseStore, recordId)
                  after == ChunksOf(rawResponseStore', recordId)
              IN  /\ IsPrefix(before, after)
                  /\ lastOp'.fed = SubSeq(after, Len(before) + 1, Len(after))
                  /\ lastOp'.fed = <<>> => lastOp'.log = <<>>
                  /\ lastOp'.fed # <<>> =>
                        [i \in 1..Len(lastOp'.log) |-> lastOp'.log[i].text] =
                            extractJsonPayloads(lastOp'.fed[1],
                                getParserState(recordId, parserStates)).payloads]_vars

\* The third chunk of r1 has just been processed, after a status update
\* that added no chunk and between chunks of r2.
ExactlyOnceWitness ==
    /\ lastOp.op = "appendChunk"
    /\ lastOp.recordId = "r1"
    /\ Len(rawResponseStore["r1"].chunks) = 3
    /\ lastOp.fed = <<rawResponseStore["r1"].chunks[3]>>
    /\ processedChunkCounts["r1"] = 3
    /\ "r2" \in DOMAIN processedChunkCounts
    /\ processedChunkCounts["r2"] = 1

\* The Message-shaped values among the items of an incremental entry.
EntryMessages(inc) ==
    IF "items" \notin DOMAIN inc THEN {}
    ELSE {inc.items[i].v : i \in {j \in 1..Len(inc.items) : isMessageObject(inc.items[j])}}

\* C24: items entries index every message. After a payload that was applied
\* without an exception, every Message-shaped value of the items of its
\* entries is in the store and the stream's tracker maps some index to its
\* id, so that a later patch of the stream can address it.
ItemsIndexEveryMessage ==
    [][(/\ lastOp'.op = "processChunk"
        /\ ~lastOp'.failed
        /\ "incremental" \in DOMAIN lastOp'.payload) =>
          \A e \in 1..Len(lastOp'.payload.incremental) :
              \A m \in EntryMessages(lastOp'.payload.incremental[e]) :
                  /\ MapHas(messageStore', m.id)
                  /\ \E k \in DOMAIN messageTrackers'[lastOp'.recordId] :
                        messageTrackers'[lastOp'.recordId][k] = m.id]_vars

(***************************************************************************)
(* Properties of the parser state (checked under SpecExtract)              *)
(***************************************************************************)
\* C25: four-state automaton. After every character the parser state is
\* outside-object (depth 0, no flag set), in-object-normal, in-object-string
\* or in-object-string-escaped: the escape flag is set only inside a string
\* literal.
FourStateAutomaton ==
    \A recordId \in DOMAIN parserStates :
        LET state == parserStates[recordId]
        IN  /\ state.depth = 0 => ~state.inString /\ ~state.escaping
            /\ state.escaping => state.inString

\* The depth with which the scanner meets character i of the wire.
DepthBefore(i) ==
    extractJsonPayloads(SubSeq(wire, 1, i - 1), InitialParserState).state.depth

\* The first n characters of the wire without those met at depth 0 that do
\* not open an object.
RECURSIVE KeptUpTo(_)
KeptUpTo(n) ==
    IF n = 0 THEN <<>>
    ELSE IF DepthBefore(n) = 0 /\ wire[n] # "{" THEN KeptUpTo(n - 1)
    ELSE Append(KeptUpTo(n - 1), wire[n])

\* C27: extractor rest-state invariant. Between two characters and between
\* two calls the depth is not negative, it is 0 exactly when the buffer is
\* empty, and at depth 0 neither flag is set; every emitted payload begins
\* with '{' and ends with '}'; and the payloads together with the buffer
\* hold the characters consumed so far less those met at depth 0 other than
\* an opening '{'.
ExtractorRestState ==
    LET state == getParserState("r1", parserStates)
    IN  /\ state.depth >= 0
        /\ state.depth = 0 <=> state.buffer = <<>>
        /\ state.depth = 0 => ~state.inString /\ ~state.escaping
        /\ \A i \in 1..Len(emitted) :
              /\ emitted[i] # <<>>
              /\ emitted[i][1] = "{"
              /\ emitted[i][Len(emitted[i])] = "}"
        /\ Flatten(emitted) \o state.buffer = KeptUpTo(sent)

\* The framed text has been consumed in several chunks: its two objects
\* were emitted without the characters around them and the parser rests.
ExtractorRestWitness ==
    /\ wire = FramedObjects
    /\ sent = Len(wire)
    /\ steps >= 3
    /\ emitted = <<EmptyObject, <<"{", "\"", "a", "\"", ":", "1", "}">>>>
    /\ parserStates["r1"] = InitialParserState

(***************************************************************************)
(* Properties of the type index (checked under Spec)                       *)
(***************************************************************************)
\* C28: type index consistency. For every kind t, getAguiMessagesByType(t)
\* returns the messages of the store whose current kind is t and no other
\* message (the ids of a kind form a Set and the store a Map, so no message
\* is returned twice).
TypeIndexConsistency ==
    \A t \in Types :
        getAguiMessagesByType(t) = {m \in Range(messageStore) : m.__typename = t}

(***************************************************************************)
(* Properties of the local cache (checked under SpecPersist)               *)
(***************************************************************************)
\* C26: bounded local cache. The persisted list holds at most maxEntries
\* entries and at most one entry per record id; a notification that is
\* written for an id already in the list replaces that entry in place, one
\* for a new id is added at the end, and what exceeds maxEntries is dropped
\* at the front of the list.
BoundedLocalCache ==
    /\ [](/\ Len(persisted.entries) <= persisted.maxEntries
          /\ \A i \in 1..Len(persisted.entries) : \A j \in 1..Len(persisted.entries) :
                persisted.entries[i].id = persisted.entries[j].id => i = j)
    /\ [][lastOp'.op = "persist" =>
            LET before == persisted.entries
                after == persisted'.entries
                at == {i \in 1..Len(before) : before[i].id = lastOp'.recordId}
                added == Append(before, lastOp'.entry)
            IN  /\ persisted'.maxEntries = persisted.maxEntries
                /\ ~lastOp'.ok => after = before
                /\ (lastOp'.ok /\ at # {}) =>
                      after = [i \in 1..Len(before) |->
                                  IF i \in at THEN lastOp'.entry ELSE before[i]]
                /\ (lastOp'.ok /\ at = {}) =>
                      /\ Len(after) = IF Len(added) > persisted.maxEntries
                                      THEN persisted.maxEntries ELSE Len(added)
                      /\ after = SubSeq(added, Len(added) - Len(after) + 1, Len(added))
         ]_vars

\* The list is full, an older record has been dropped from its front, and
\* the last notification replaced the first entry in place.
BoundedLocalCacheWitness ==
    /\ lastOp.op = "persist"
    /\ lastOp.ok
    /\ lastOp.existingIndex = 0
    /\ persisted.maxEntries = 2
    /\ Len(persisted.entries) = 2
    /\ persisted.entries[1] = lastOp.entry
    /\ "p1" \in DOMAIN rawResponseStore
    /\ \A i \in 1..2 : persisted.entries[i].id # "p1"

(***************************************************************************)
(* Properties of the fetch wrappers (checked under SpecFetch)              *)
(***************************************************************************)
\* C29: fetch restoration. When several loggers were mounted and all of them
\* are unmounted, window.fetch is the fetch installed before the first
\* mount, and no wrapper of an unmounted logger is on the call path.
FetchRestoration ==
    (/\ Cardinality(DOMAIN loggers) >= 2
     /\ \A h \in DOMAIN loggers : ~loggers[h].mounted) =>
        /\ windowFetch = NativeFetch
        /\ \A h \in Range(CallPath(windowFetch)) : loggers[h].mounted

(***************************************************************************)
(* Properties of ask_user_question (checked under SpecAsk)                 *)
(***************************************************************************)
\* C30: submission is final. Once the user has submitted answers, the
\* action the detail panel shows for the execution shows the read-only
\* submitted view, and respond is called at most once for the execution.
SubmissionIsFinal ==
    /\ renderer.isSubmitted =>
          \A action \in selectedAction : PanelView(action) = "SubmittedView"
    /\ renderer.responded <= 1

====
